---- MODULE Spec2Model ----
(***************************************************************************)
(* Hydro-Ecologist front end: the useSimulationData hook and the Dashboard *)
(* component that drives it, as one event-driven state machine.  Every     *)
(* handler runs to completion; the only suspension points are the awaited  *)
(* HTTP calls, kept in `calls` until the remote service answers them.      *)
(***************************************************************************)
EXTENDS Integers, Sequences, FiniteSets, Bags, TLC

\* ------------------------------------------------------------------ bounds
\* Calls that may be awaited at the same time (the code sets no limit).
MaxCalls == 3
\* User events handled in one session.
MaxEvents == 2
\* Significant bits of a number (a double has 53).
MantissaBits == 11

\* ------------------------------------------------------------- constants
\* setInterval(..., 2000): the auto-play period, in seconds.
TickPeriod == 2

\* null for a string-valued field, and for a record-valued one
NULL == "null"
None == << >>
NoInterval == -1

\* Target profiles and lesson presets the remote service knows.
Targets == {"urban_lake", "coastal_estuary"}
LessonCatalog ==
    { [id |-> "lake_bloom", target_id |-> "urban_lake"],
      [id |-> "estuary_hypoxia", target_id |-> "coastal_estuary"] }

\* The parameters the spatial view can show (two of the palette names).
SpatialParameters == {"dissolved_oxygen", "nutrient"}

\* The operations useSimulationData returns to its consumer.
Operations ==
    { "fetchData", "fetchTargets", "selectTarget", "fetchLessons", "runLesson",
      "stepSimulation", "resetSimulation", "injectParameters",
      "fetchSpatialGrid", "toggleMarineHeatwave", "deployRemediation",
      "getRemediationSummary", "getRegulatoryCompliance",
      "getRegulatoryHistory" }

\* The actions the specification calls mutating.
MutatingOps ==
    { "stepSimulation", "resetSimulation", "injectParameters",
      "toggleMarineHeatwave", "selectTarget", "runLesson",
      "deployRemediation" }

\* ------------------------------------------------------------------ state
VARIABLES
    \* useSimulationData
    health, chemistry, spatialGrid,
    isFetchingData, isStepping, isResetting, isFetchingSpatial,
    dataError, spatialError,
    targets, activeTargetId, activeTarget, isFetchingTargets, targetError,
    lessons, isFetchingLessons, isRunningLesson, lessonError,
    \* Dashboard
    isAutoPlay, showSpatialView, spatialParameter, heatwaveActive,
    remediationSummary, regulatoryCompliance,
    isCheckingCompliance, complianceError,
    isDeployingRemediation, remediationError, isSwitchingTarget,
    prevChemistry, lastActionLabel, explanation,
    \* the two run slots of Run Compare (A/B)
    runA, runB,
    \* SpatialVisualization: the canvas as last painted, and the last call
    \* of getColor with its result
    canvas, color,
    \* Dashboard: the entries of the charts, oldest first (followed in
    \* SpecHistory; the session specifications leave the charts out)
    history,
    \* the interval registered by the auto-play effect: NoInterval, or the
    \* seconds elapsed since it was registered or last fired
    interval,
    mounted,
    \* the remote engine: its active target, and whether the displayed
    \* chemistry / grid were read after its last mutation
    engineTarget, chemistryFresh, gridFresh,
    \* the awaited calls (a bag)
    calls,
    \* history: the last handler or continuation that ran, and the session
    \* state recorded when a mutating action was invoked with nothing else
    \* awaited
    lastEvent, pre,
    \* the handlers run so far
    nEvents

statusVars == << health, chemistry, chemistryFresh, dataError, isFetchingData >>
busyVars == << isStepping, isResetting >>
gridVars == << spatialGrid, gridFresh, isFetchingSpatial, spatialError >>
targetVars ==
    << targets, activeTargetId, activeTarget, isFetchingTargets, targetError,
       isSwitchingTarget, engineTarget >>
lessonVars == << lessons, isFetchingLessons, isRunningLesson, lessonError >>
viewVars == << showSpatialView, spatialParameter >>
timerVars == << isAutoPlay, interval, mounted >>
explainVars == << prevChemistry, lastActionLabel, explanation >>
remediationVars ==
    << remediationSummary, isDeployingRemediation, remediationError >>
complianceVars ==
    << regulatoryCompliance, isCheckingCompliance, complianceError >>
runVars == << runA, runB >>
renderVars == << canvas, color, history >>
vars ==
    << statusVars, busyVars, gridVars, targetVars, lessonVars, viewVars,
       timerVars, explainVars, remediationVars, complianceVars, runVars,
       renderVars, heatwaveActive, calls, lastEvent, pre, nEvents >>

\* ---------------------------------------------------------------- helpers
\* An awaited call: the hook operation `op`, the request it is waiting for
\* (`pc`: its own "call", or the "health" / "chemistry" request of the
\* fetchData it awaits), its argument, the Dashboard handler awaiting it
\* (`from`) and the showSpatialView / spatialParameter that handler closed
\* over.  `seq` is 0 until the operation calls fetchData, and then the
\* position of that fetchData among the awaited ones, in call order; `late`
\* says that a fetchData called after this one has already written the
\* chemistry.
Call(op, pc, arg, from, view, param) ==
    [op |-> op, pc |-> pc, arg |-> arg, from |-> from, view |-> view,
     param |-> param, seq |-> 0, late |-> FALSE]

Plain(op, arg) == Call(op, "call", arg, "none", FALSE, NULL)

Add(B, c) == B (+) SetToBag({c})
Drop(B, c) == B (-) SetToBag({c})
AddAll(B, s) ==
    IF s = << >> THEN B
    ELSE IF Len(s) = 1 THEN Add(B, s[1])
    ELSE Add(Add(B, s[1]), s[2])

Awaited == BagToSet(calls)
Room(n) == BagCardinality(calls) + n <= MaxCalls

\* fetchData() called by the operation of call c, while the calls of B are
\* awaited.
Fetching(B, c) ==
    [c EXCEPT !.pc = "health",
              !.seq = 1 + Cardinality({d \in BagToSet(B) : d.seq > 0})]

\* The calls of B once the fetchData at position n has resolved; when it
\* wrote the chemistry, the fetchData calls before it are late.
Renumber(B, n, wrote) ==
    LET shift(c) == IF c.seq > n THEN [c EXCEPT !.seq = @ - 1]
                    ELSE IF c.seq > 0 /\ wrote THEN [c EXCEPT !.late = TRUE]
                    ELSE c
        old == BagToSet(B)
    IN  [d \in {shift(c) : c \in old} |->
            B[CHOOSE c \in old : shift(c) = d]]

\* What ran last: a handler, or the continuation of call c once its request
\* `pc` was answered (ok or not), with the value the operation resolved to
\* (NULL while it goes on awaiting) and whether it wrote late chemistry.
Event(ev) ==
    [ev |-> ev, op |-> NULL, pc |-> NULL, ok |-> TRUE, result |-> NULL,
     late |-> FALSE]
Completion(c, ok, result) ==
    [ev |-> "completion", op |-> c.op, pc |-> c.pc, ok |-> ok,
     result |-> result, late |-> (ok /\ c.pc = "chemistry" /\ c.late)]

\* A handler runs / a continuation has run.
handled(ev) ==
    /\ nEvents < MaxEvents
    /\ nEvents' = nEvents + 1
    /\ lastEvent' = Event(ev)
completed(c, ok, result) ==
    /\ lastEvent' = Completion(c, ok, result)
    /\ UNCHANGED nEvents

Snapshot ==
    [health |-> health, chemistry |-> chemistry,
     chemistryFresh |-> chemistryFresh, spatialGrid |-> spatialGrid,
     gridFresh |-> gridFresh, activeTargetId |-> activeTargetId,
     activeTarget |-> activeTarget, lessons |-> lessons]

\* ---------------------------------------------------------------- numbers
\* A JavaScript number is a binary floating-point value.  Here it is an
\* integer count of hundredths kept to MantissaBits significant bits, and
\* every arithmetic result is rounded to the nearest such value, ties to
\* the even one.
RECURSIVE Ulp(_, _)
Ulp(m, q) == IF m < (2 ^ MantissaBits) * q THEN q ELSE Ulp(m, 2 * q)

RoundAbs(m) ==
    LET q == Ulp(m, 1)
        lo == (m \div q) * q
        r == m - lo
    IN  IF 2 * r < q THEN lo
        ELSE IF 2 * r > q THEN lo + q
        ELSE IF (lo \div q) % 2 = 0 THEN lo ELSE lo + q

Round(x) == IF x < 0 THEN 0 - RoundAbs(0 - x) ELSE RoundAbs(x)

\* b - a and a + b as the program computes them.
minus(b, a) == Round(b - a)
plus(a, b) == Round(a + b)

\* Below, CHOOSE r \in { e(x) : x \in {v} } : TRUE is e(v) with v computed
\* once (a const binding).

\* The array with the elements of f, a function on 1..n.
asArray(f) == SubSeq(f, 1, Len(f))

\* Math.abs
abs(x) == IF x < 0 THEN 0 - x ELSE x

\* 0.01 and 0.05, the thresholds of the rules, in hundredths.
Threshold == 1
TemperatureThreshold == 5

\* The fields listed by the first bullet, and the most bullets returned.
TopCount == 3
MaxBullets == 6

\* A value of the response body: a number, or something else (a string,
\* null); typeof tells them apart.
Num(v) == [type |-> "number", v |-> v]
NotNum == [type |-> "string", v |-> 0]
typeof(x) == x.type

\* The 8 fields of a chemistry snapshot, in the order of the snapshot.
Keys ==
    << "nutrient", "phytoplankton", "zooplankton", "detritus",
       "dissolved_oxygen", "ph", "bod", "temperature" >>
KeySet == {Keys[i] : i \in 1..Len(Keys)}

\* ------------------------------------------------- the remote service
\* The chemistry of the engine under each target, in hundredths.
ChemistryOf(t) ==
    IF t = "urban_lake"
    THEN [nutrient |-> 100, phytoplankton |-> 50, zooplankton |-> 20,
          detritus |-> 10, dissolved_oxygen |-> 600, ph |-> 700,
          bod |-> 200, temperature |-> 2000]
    ELSE [nutrient |-> 100, phytoplankton |-> 50, zooplankton |-> 20,
          detritus |-> 10, dissolved_oxygen |-> 540, ph |-> 700,
          bod |-> 400, temperature |-> 2000]

\* GET /status/chemistry: a reading of the engine's current state, every
\* field a number.
Reading == [k \in KeySet |-> Num(ChemistryOf(engineTarget)[k])]

\* GET /status/chemistry/grid?parameter=p
GridOf(p) ==
    [parameter |-> p, target |-> engineTarget,
     grid |-> IF engineTarget = "urban_lake"
              THEN << << 0, 50 >>, << 50, 100 >> >>
              ELSE << << 0, 25 >>, << 75, 100 >> >>,
     min |-> 0, max |-> 100, nx |-> 2, ny |-> 2]

\* GET /lessons?target_id=t, and GET /lessons when no target id is given.
LessonsOf(t) ==
    IF t = NULL THEN LessonCatalog
    ELSE { l \in LessonCatalog : l.target_id = t }

\* ------------------------------------------------------ pure functions
\* typeof chemistry[k] !== 'number' for one of the 8 keys: null; otherwise
\* the 8 numbers.
toChemistrySnapshot(c) ==
    IF c = None THEN None
    ELSE IF \E i \in 1..Len(Keys) :
               Keys[i] \notin DOMAIN c \/ typeof(c[Keys[i]]) # "number"
         THEN None
         ELSE [k \in KeySet |-> c[k].v]

\* value.toFixed(2) of a number of hundredths.
Digits2(n) == ToString(n \div 10) \o ToString(n % 10)
toFixed(h) ==
    CHOOSE r \in { (IF h < 0 THEN "-" ELSE "") \o ToString(a \div 100)
                   \o "." \o Digits2(a % 100) : a \in {abs(h)} } : TRUE

\* formatDelta(value)
formatDelta(value) == (IF value > 0 THEN "+" ELSE "") \o toFixed(value)

\* k.replace('_', ' ') on the 8 field names: one of them has an underscore.
replaceUnderscore(k) ==
    IF k = "dissolved_oxygen" THEN "dissolved oxygen" ELSE k

\* The fields of `deltas`, in the order the object literal lists them.
DeltaKeys ==
    << "dissolved_oxygen", "bod", "temperature", "phytoplankton",
       "zooplankton", "detritus", "nutrient", "ph" >>

\* deltas: next - prev, field by field.
Deltas(prev, next) == [k \in KeySet |-> minus(next[k], prev[k])]

\* The fields in `order` sorted by (a, b) => b.abs - a.abs; the sort is
\* stable, so equal magnitudes keep the order they had in `order`.
Rank(order, d, i) ==
    Cardinality({ j \in 1..Len(order) :
                    \/ abs(d[order[j]]) > abs(d[order[i]])
                    \/ abs(d[order[j]]) = abs(d[order[i]]) /\ j < i })
SortByAbs(order, d) ==
    CHOOSE sorted \in
        { asArray([r \in 1..Len(order) |->
              order[CHOOSE i \in 1..Len(order) : rank[i] = r - 1]]) :
          rank \in {asArray([i \in 1..Len(order) |-> Rank(order, d, i)])} } :
        TRUE

\* .slice(0, n)
slice(s, n) == SubSeq(s, 1, IF Len(s) < n THEN Len(s) ELSE n)

\* top: the first TopCount of the sorted fields, each as "<field> <signed
\* delta>", joined with ", ".
entry(k, v) == replaceUnderscore(k) \o " " \o formatDelta(v)
TopChanges(order, d) ==
    CHOOSE top \in
        { entry(s[1], d[s[1]]) \o ", " \o entry(s[2], d[s[2]]) \o ", "
          \o entry(s[3], d[s[3]]) :
          s \in {slice(SortByAbs(order, d), TopCount)} } : TRUE

TopBullet(order, d) == "Top changes: " \o TopChanges(order, d) \o "."

\* if (cond) bullets.push(note)
When(cond, note) == IF cond THEN << note >> ELSE << >>

\* The notes of the rules.
Notes ==
    [bodUp |-> "DO decreased largely because BOD increased "
               \o "(higher oxygen demand).",
     warmer |-> "Warmer water lowers DO saturation, pushing DO downward.",
     biomass |-> "More biomass/detritus increases respiration terms "
                 \o "that can consume DO.",
     bodDown |-> "DO increased partly because BOD dropped "
                 \o "(less oxygen demand).",
     photosynthesis |-> "Higher phytoplankton can increase photosynthetic "
                        \o "oxygen production.",
     cooler |-> "Cooler water raises DO saturation, helping DO recover.",
     uptake |-> "Nutrients decreased while phytoplankton increased: "
                \o "uptake/growth is likely dominating.",
     remineralization |-> "Nutrients increased while detritus decreased: "
                          \o "remineralization can return nutrients."]

\* The rule set with the nutrient rules chained to the dissolved-oxygen
\* branches by `else if`.
ruleNotes_Exclusive(d) ==
    IF d.dissolved_oxygen < 0 - Threshold
    THEN When(d.bod > Threshold, Notes.bodUp)
         \o When(d.temperature > TemperatureThreshold, Notes.warmer)
         \o When(\/ d.detritus > Threshold
                 \/ d.zooplankton > Threshold
                 \/ d.phytoplankton > Threshold, Notes.biomass)
    ELSE IF d.dissolved_oxygen > Threshold
    THEN When(d.bod < 0 - Threshold, Notes.bodDown)
         \o When(d.phytoplankton > Threshold, Notes.photosynthesis)
         \o When(d.temperature < 0 - TemperatureThreshold, Notes.cooler)
    ELSE IF d.nutrient < 0 - Threshold /\ d.phytoplankton > Threshold
    THEN << Notes.uptake >>
    ELSE When(d.nutrient > Threshold /\ d.detritus < 0 - Threshold,
              Notes.remineralization)

\* The notes pushed after the first bullet, in the order of the pushes.
ruleNotes(d) ==
    (IF d.dissolved_oxygen < 0 - Threshold
     THEN When(d.bod > Threshold, Notes.bodUp)
          \o When(d.temperature > TemperatureThreshold, Notes.warmer)
          \o When(\/ d.detritus > Threshold
                  \/ d.zooplankton > Threshold
                  \/ d.phytoplankton > Threshold, Notes.biomass)
     ELSE IF d.dissolved_oxygen > Threshold
     THEN When(d.bod < 0 - Threshold, Notes.bodDown)
          \o When(d.phytoplankton > Threshold, Notes.photosynthesis)
          \o When(d.temperature < 0 - TemperatureThreshold, Notes.cooler)
     ELSE << >>)
    \o When(d.nutrient < 0 - Threshold /\ d.phytoplankton > Threshold,
            Notes.uptake)
    \o When(d.nutrient > Threshold /\ d.detritus < 0 - Threshold,
            Notes.remineralization)

\* The bullets with the rule notes ahead of the top-changes bullet.
Generated_RulesFirst(d) == ruleNotes(d) \o << TopBullet(DeltaKeys, d) >>

\* bullets, as pushed: the top-changes bullet, then the rule notes.
Generated(d) == << TopBullet(DeltaKeys, d) >> \o ruleNotes(d)

\* Array.from(new Set(bullets)): the first occurrence of each bullet.
Dedupe(s) ==
    CHOOSE unique \in
        { asArray([r \in 1..Cardinality(keep) |->
              s[CHOOSE i \in keep :
                    Cardinality({ j \in keep : j < i }) = r - 1]]) :
          keep \in
              {{ i \in 1..Len(s) : \A j \in 1..(i - 1) : s[j] # s[i] }} } :
        TRUE

\* buildExplanation labelling its result with the run slot A in use.
buildExplanation_Stateful(prev, next, label) ==
    CHOOSE result \in
        { [title |-> "Why did this change?",
           subtitle |-> IF runA = None THEN label ELSE label \o " (vs. A)",
           bullets |-> CHOOSE b \in { slice(unique, MaxBullets) :
                                      unique \in {Dedupe(Generated(d))} } :
                           TRUE,
           deltas |-> d] :
          d \in {Deltas(prev, next)} } : TRUE

\* buildExplanation(prev, next, lastActionLabel)
buildExplanation(prev, next, label) ==
    CHOOSE result \in
        { [title |-> "Why did this change?",
           subtitle |-> label,
           bullets |-> CHOOSE b \in { slice(unique, MaxBullets) :
                                      unique \in {Dedupe(Generated(d))} } :
                           TRUE,
           deltas |-> d] :
          d \in {Deltas(prev, next)} } : TRUE

\* useEffect(..., [chemistry, prevChemistry, lastActionLabel])
explanationEffect(chem, prev, label, shown) ==
    LET next == toChemistrySnapshot(chem)
    IN  IF prev = None \/ next = None \/ label = "" THEN shown
        ELSE buildExplanation(prev, next, label)

\* prev.slice(-n): the last n entries of prev, all of them when there are
\* no more than n.
sliceLast(prev, n) ==
    IF Len(prev) <= n THEN prev
    ELSE SubSeq(prev, Len(prev) - n + 1, Len(prev))

\* The entries kept by the history effect before it appends.
HistoryKeep == 20

\* The chart entry built from a chemistry at time now.
historyEntry(now, chem) ==
    [time |-> now, do |-> chem.dissolved_oxygen,
     nutrients |-> chem.nutrient, phyto |-> chem.phytoplankton]

historyEffect_KeepingOldest(prev, chem, now) ==
    IF chem = None THEN prev
    ELSE Append(SubSeq(prev, 1, IF Len(prev) <= HistoryKeep THEN Len(prev)
                                ELSE HistoryKeep),
                historyEntry(now, chem))

\* useEffect(..., [chemistry]): setHistory(prev => [...prev.slice(-20),
\* entry]) when there is a chemistry.
historyEffect(prev, chem, now) ==
    IF chem = None THEN prev
    ELSE Append(sliceLast(prev, HistoryKeep), historyEntry(now, chem))

\* ------------------------------------------------------------- getColor
\* parameterInfo[parameter] || parameterInfo.dissolved_oxygen, .colormap
colormapOf(parameter) ==
    CASE parameter = "dissolved_oxygen" -> "oxygen"
      [] parameter = "nutrient" -> "nutrient"
      [] parameter = "phytoplankton" -> "phyto"
      [] parameter = "bod" -> "pollutant"
      [] parameter = "temperature" -> "temperature"
      [] OTHER -> "oxygen"

\* normalized without the guard max > min: the offset from min itself on
\* a flat field.
normalized_Unguarded(value, min, max) ==
    IF max > min THEN [num |-> value - min, den |-> max - min]
    ELSE [num |-> value - min, den |-> 1]

\* normalized, as the fraction num / den with den > 0: 0.5 for a flat
\* field.
normalized(value, min, max) ==
    IF max > min THEN [num |-> value - min, den |-> max - min]
    ELSE [num |-> 1, den |-> 2]

\* Math.floor(a + t * k) for t = tn / td, td > 0.
Ramp(a, k, tn, td) == a + ((k * tn) \div td)

\* The segments of 'oxygen', each on its own t = tn / td.
oxygenLow(tn, td) ==
    << 220, Ramp(30, 170, tn, td), Ramp(30, 30, tn, td) >>
oxygenHigh_Offset(tn, td) ==
    << Ramp(220, -214, tn, td), Ramp(210, -28, tn, td),
       Ramp(60, 148, tn, td) >>
oxygenHigh(tn, td) ==
    << Ramp(220, -214, tn, td), Ramp(200, -18, tn, td),
       Ramp(60, 148, tn, td) >>

\* The segments of 'temperature'.
temperatureCold(tn, td) ==
    << Ramp(50, 50, tn, td), Ramp(100, 120, tn, td),
       Ramp(200, -50, tn, td) >>
temperatureMild(tn, td) ==
    << Ramp(100, 120, tn, td), Ramp(220, -40, tn, td),
       Ramp(150, -100, tn, td) >>
temperatureHot(tn, td) ==
    << Ramp(220, 30, tn, td), Ramp(180, -130, tn, td),
       Ramp(50, -30, tn, td) >>

\* The colour of the palette at normalized = num / den: the three numbers
\* of the string `rgb(r, g, b)`.  0.33, 0.34 and 0.67 are 33, 34 and 67
\* hundredths.
paletteAt(colormap, num, den) ==
    CASE colormap = "oxygen" ->
             IF 2 * num < den THEN oxygenLow(2 * num, den)
             ELSE oxygenHigh(2 * num - den, den)
      [] colormap = "nutrient" ->
             << Ramp(10, 40, num, den), Ramp(50, 185, num, den),
                Ramp(130, -80, num, den) >>
      [] colormap = "phyto" ->
             << Ramp(20, 120, num, den), Ramp(80, 175, num, den),
                Ramp(30, 70, num, den) >>
      [] colormap = "pollutant" ->
             << Ramp(30, 150, num, den), Ramp(100, -50, num, den),
                Ramp(150, -120, num, den) >>
      [] colormap = "temperature" ->
             IF 100 * num < 33 * den
             THEN temperatureCold(100 * num, 33 * den)
             ELSE IF 100 * num < 67 * den
             THEN temperatureMild(100 * num - 33 * den, 34 * den)
             ELSE temperatureHot(100 * num - 67 * den, 33 * den)
      [] OTHER ->
             << Ramp(68, 187, num, den), Ramp(1, 230, num, den),
                Ramp(84, -30, num, den) >>

\* getColor(value, min, max, colormap)
getColor(value, min, max, colormap) ==
    CHOOSE rgb \in
        { paletteAt(colormap, n.num, n.den) :
          n \in {normalized(value, min, max)} } : TRUE

\* ------------------------------------------------- SpatialVisualization
\* grid[j]?.[i] ?? min, for a grid whose rows and cells are numbered
\* from 1 here; a missing row or cell is an index outside the domain.
cellOr(grid, j, i, min) ==
    IF j + 1 \in DOMAIN grid /\ i + 1 \in DOMAIN grid[j + 1]
    THEN grid[j + 1][i + 1] ELSE min

\* The draw loop leaving out the pixels of missing cells.
Painted_Skipping(g, colormap) ==
    [width |-> g.nx, height |-> g.ny,
     pixels |-> [p \in { q \in (0..(g.nx - 1)) \X (0..(g.ny - 1)) :
                            /\ q[2] + 1 \in DOMAIN g.grid
                            /\ q[1] + 1 \in DOMAIN g.grid[q[2] + 1] } |->
                    getColor(cellOr(g.grid, p[2], p[1], g.min), g.min,
                             g.max, colormap)]]

\* The canvas after the draw loop: its size, and the colour filled at each
\* (i, j).
Painted(g, colormap) ==
    [width |-> g.nx, height |-> g.ny,
     pixels |-> [p \in (0..(g.nx - 1)) \X (0..(g.ny - 1)) |->
                    getColor(cellOr(g.grid, p[2], p[1], g.min), g.min,
                             g.max, colormap)]]

\* The canvas of SpatialVisualization once its draw effect has run: there
\* is one while the spatial view is shown with a grid.
drawEffect(view, g, parameter) ==
    IF view /\ g # None THEN Painted(g, colormapOf(parameter)) ELSE None

\* The operations without a catch block: a failed request rejects the
\* promise the operation returned.
Returns_NoCatch(op, ok) ==
    IF ~ok THEN "throws"
    ELSE CASE op \in {"selectTarget", "deployRemediation"} -> "true"
           [] op \in {"runLesson", "getRemediationSummary",
                      "getRegulatoryCompliance", "getRegulatoryHistory"} ->
                  "data"
           [] OTHER -> "void"

\* The value an operation resolves to, by the outcome of its own request:
\* every operation catches the failure of its request.
Returns(op, ok) ==
    CASE op \in {"selectTarget", "deployRemediation"} ->
             IF ok THEN "true" ELSE "false"
      [] op \in {"runLesson", "getRemediationSummary",
                 "getRegulatoryCompliance", "getRegulatoryHistory"} ->
             IF ok THEN "data" ELSE "null"
      [] OTHER -> "void"

\* The auto-play effect without its cleanup: the interval registered
\* earlier is never cleared.
AutoPlayEffect_NoCleanup(autoPlay) == IF autoPlay THEN 0 ELSE interval

\* The auto-play effect: its cleanup clears the interval, and it registers
\* a new one when auto-play is on.
AutoPlayEffect(autoPlay) == IF autoPlay THEN 0 ELSE NoInterval

\* ------------------------------------------------------------------- Init
\* The first render and its effects: fetchData(), fetchTargets() and
\* fetchLessons(null) are awaited.
Init ==
    /\ health = "" /\ chemistry = None /\ spatialGrid = None
    /\ isFetchingData = TRUE /\ isStepping = FALSE /\ isResetting = FALSE
    /\ isFetchingSpatial = FALSE
    /\ dataError = NULL /\ spatialError = NULL
    /\ targets = {} /\ activeTargetId = NULL /\ activeTarget = NULL
    /\ isFetchingTargets = TRUE /\ targetError = NULL
    /\ lessons = {} /\ isFetchingLessons = TRUE /\ isRunningLesson = FALSE
    /\ lessonError = NULL
    /\ isAutoPlay = FALSE /\ showSpatialView = FALSE
    /\ spatialParameter = "dissolved_oxygen" /\ heatwaveActive = FALSE
    /\ remediationSummary = NULL /\ regulatoryCompliance = NULL
    /\ isCheckingCompliance = FALSE /\ complianceError = NULL
    /\ isDeployingRemediation = FALSE /\ remediationError = NULL
    /\ isSwitchingTarget = FALSE
    /\ prevChemistry = None /\ lastActionLabel = "" /\ explanation = None
    /\ runA = None /\ runB = None
    /\ canvas = None /\ color = None
    /\ history = << >>
    /\ interval = NoInterval /\ mounted = TRUE
    /\ engineTarget = "urban_lake"
    /\ chemistryFresh = FALSE /\ gridFresh = FALSE
    /\ calls = SetToBag({ Fetching(EmptyBag, Plain("fetchData", NULL)),
                          Plain("fetchTargets", NULL),
                          Plain("fetchLessons", NULL) })
    /\ lastEvent = Event("mount")
    /\ pre = None
    /\ nEvents = 0

\* ------------------------------------------------- pieces of the handlers
\* markAction(label), followed by the explanation effect its state changes
\* trigger.
markAction(label) ==
    /\ prevChemistry' = toChemistrySnapshot(chemistry)
    /\ lastActionLabel' = label
    /\ explanation' = explanationEffect(chemistry, prevChemistry', label, None)

\* fetchSpatialGrid(spatialParameter, 4) when `wanted`: its synchronous part
\* and the call it awaits.
startSpatial(wanted) ==
    /\ isFetchingSpatial' = (wanted \/ isFetchingSpatial)
    /\ spatialError' = IF wanted THEN NULL ELSE spatialError
    /\ UNCHANGED << spatialGrid, gridFresh >>

spatialCalls(wanted, p) ==
    IF wanted THEN << Plain("fetchSpatialGrid", p) >> ELSE << >>

\* The session state as it is when a mutating action is invoked while
\* nothing else is awaited.
markPre(mutating) ==
    pre' = IF mutating /\ calls = EmptyBag
           THEN [snap |-> Snapshot, failed |-> FALSE] ELSE None

\* ----------------------------------------------------- stepping handlers
\* markAction; stepSimulation(); if (showSpatialView) fetchSpatialGrid(...)
stepHandler(label) ==
    /\ Room(IF showSpatialView THEN 2 ELSE 1)
    /\ markAction(label)
    /\ isStepping' = TRUE
    /\ startSpatial(showSpatialView)
    /\ calls' = AddAll(calls, << Plain("stepSimulation", NULL) >>
                          \o spatialCalls(showSpatialView, spatialParameter))
    /\ handled(label)
    /\ markPre(TRUE)
    /\ UNCHANGED << renderVars, runVars,
                    statusVars, isResetting, targetVars, lessonVars, viewVars,
                    remediationVars, heatwaveActive >>

\* The Advance button, disabled while stepping, fetching or resetting.
Advance ==
    /\ mounted
    /\ ~(isStepping \/ isFetchingData \/ isResetting)
    /\ stepHandler("Advance")
    /\ UNCHANGED << timerVars, complianceVars >>

\* handleKeyPress, e.code === 'Space'
KeySpace ==
    /\ mounted
    /\ stepHandler("Advance (keyboard)")
    /\ UNCHANGED << timerVars, complianceVars >>

\* The interval's callback: a step, then the compliance refresh.
AutoPlayTick ==
    /\ interval = TickPeriod
    /\ Room(IF showSpatialView THEN 3 ELSE 2)
    /\ markAction("Auto-play: advance")
    /\ isStepping' = TRUE
    /\ startSpatial(showSpatialView)
    /\ isCheckingCompliance' = TRUE
    /\ complianceError' = NULL
    /\ calls' = Add(AddAll(calls, << Plain("stepSimulation", NULL) >>
                            \o spatialCalls(showSpatialView, spatialParameter)),
                    Call("getRegulatoryCompliance", "call", NULL,
                         "compliance", FALSE, NULL))
    /\ interval' = 0
    /\ lastEvent' = Event("Auto-play: advance")
    /\ UNCHANGED nEvents
    /\ markPre(TRUE)
    /\ UNCHANGED << renderVars, runVars,
                    statusVars, isResetting, targetVars, lessonVars, viewVars,
                    remediationVars, heatwaveActive, isAutoPlay, mounted,
                    regulatoryCompliance >>

\* One second passes on the registered interval.
Elapse ==
    /\ interval # NoInterval
    /\ interval < TickPeriod
    /\ interval' = interval + 1
    /\ UNCHANGED << renderVars, runVars,
                    statusVars, busyVars, gridVars, targetVars, lessonVars,
                    viewVars, isAutoPlay, mounted, explainVars,
                    remediationVars, complianceVars, heatwaveActive, calls,
                    lastEvent, pre, nEvents >>

\* The auto-play button and KeyP: setIsAutoPlay(!isAutoPlay), then the
\* auto-play effect.
ToggleAutoPlay ==
    /\ mounted
    /\ isAutoPlay' = ~isAutoPlay
    /\ interval' = AutoPlayEffect(isAutoPlay')
    /\ handled(IF isAutoPlay THEN "autoplay off" ELSE "autoplay on")
    /\ markPre(FALSE)
    /\ UNCHANGED << renderVars, runVars,
                    statusVars, busyVars, gridVars, targetVars, lessonVars,
                    viewVars, mounted, explainVars, remediationVars,
                    complianceVars, heatwaveActive, calls >>

\* The Dashboard is torn down: the cleanup of its effects runs.
Unmount ==
    /\ mounted
    /\ mounted' = FALSE
    /\ interval' = AutoPlayEffect(FALSE)
    /\ handled("unmount")
    /\ markPre(FALSE)
    /\ canvas' = None
    /\ UNCHANGED << color, history, runVars,
                    statusVars, busyVars, gridVars, targetVars, lessonVars,
                    viewVars, isAutoPlay, explainVars, remediationVars,
                    complianceVars, heatwaveActive, calls >>

\* The Reset button.
Reset ==
    /\ mounted
    /\ ~(isResetting \/ isStepping \/ isFetchingData)
    /\ Room(IF showSpatialView THEN 2 ELSE 1)
    /\ markAction("Reset")
    /\ isResetting' = TRUE
    /\ startSpatial(showSpatialView)
    /\ calls' = AddAll(calls, << Plain("resetSimulation", NULL) >>
                          \o spatialCalls(showSpatialView, spatialParameter))
    /\ handled("Reset")
    /\ markPre(TRUE)
    /\ UNCHANGED << renderVars, runVars,
                    statusVars, isStepping, targetVars, lessonVars, viewVars,
                    timerVars, remediationVars, complianceVars,
                    heatwaveActive >>

\* markAction(label); fetchData()
refreshHandler(label) ==
    /\ Room(1)
    /\ markAction(label)
    /\ isFetchingData' = TRUE
    /\ dataError' = NULL
    /\ calls' = Add(calls, Fetching(calls, Plain("fetchData", NULL)))
    /\ handled(label)
    /\ markPre(FALSE)
    /\ UNCHANGED << renderVars, runVars,
                    health, chemistry, chemistryFresh, busyVars, gridVars,
                    targetVars, lessonVars, viewVars, timerVars,
                    remediationVars, complianceVars, heatwaveActive >>

\* The Refresh button.
Refresh ==
    /\ mounted
    /\ ~(isFetchingData \/ isStepping \/ isResetting)
    /\ refreshHandler("Refresh")

\* handleKeyPress, e.code === 'KeyR'
KeyR ==
    /\ mounted
    /\ refreshHandler("Refresh (keyboard)")

\* Add Nutrients / Add Pollutants, enabled once the slider is not 0.
Inject ==
    /\ mounted
    /\ Room(1)
    /\ \E label \in {"Inject nutrients", "Inject pollutants"} :
          /\ markAction(label)
          /\ calls' = Add(calls, Plain("injectParameters", label))
          /\ handled(label)
    /\ markPre(TRUE)
    /\ UNCHANGED << renderVars, runVars,
                    statusVars, busyVars, gridVars, targetVars, lessonVars,
                    viewVars, timerVars, remediationVars, complianceVars,
                    heatwaveActive >>

\* The heatwave button: the toggle is called and the local state is set.
ToggleHeatwave ==
    /\ mounted
    /\ Room(1)
    /\ LET newState == ~heatwaveActive
           label == IF newState THEN "Activate heatwave"
                    ELSE "Deactivate heatwave"
       IN  /\ markAction(label)
           /\ calls' = Add(calls, Plain("toggleMarineHeatwave", label))
           /\ heatwaveActive' = newState
           /\ handled(label)
    /\ markPre(TRUE)
    /\ UNCHANGED << renderVars, runVars,
                    statusVars, busyVars, gridVars, targetVars, lessonVars,
                    viewVars, timerVars, remediationVars, complianceVars >>

\* The spatial view button: the handler fetches the grid when it turns the
\* view on, and so does the spatial effect that follows; the auto-play
\* effect depends on showSpatialView and runs again.
ToggleSpatialView ==
    /\ mounted
    /\ ~isFetchingSpatial
    /\ Room(IF showSpatialView THEN 0 ELSE 2)
    /\ showSpatialView' = ~showSpatialView
    /\ startSpatial(showSpatialView')
    /\ calls' = AddAll(calls, spatialCalls(showSpatialView', spatialParameter)
                          \o spatialCalls(showSpatialView', spatialParameter))
    /\ interval' = AutoPlayEffect(isAutoPlay)
    /\ handled("toggle spatial view")
    /\ markPre(FALSE)
    /\ canvas' = drawEffect(showSpatialView', spatialGrid, spatialParameter)
    /\ UNCHANGED << color, history, runVars,
                    statusVars, busyVars, targetVars, lessonVars,
                    spatialParameter, isAutoPlay, mounted, explainVars,
                    remediationVars, complianceVars, heatwaveActive >>

\* onParameterChange(param) of the spatial view, then the spatial effect
\* and the auto-play effect, which both depend on spatialParameter.
ChangeSpatialParameter ==
    /\ mounted
    /\ showSpatialView
    /\ Room(1)
    /\ \E p \in SpatialParameters \ {spatialParameter} :
          /\ spatialParameter' = p
          /\ calls' = AddAll(calls, spatialCalls(TRUE, p))
    /\ startSpatial(TRUE)
    /\ interval' = AutoPlayEffect(isAutoPlay)
    /\ handled("change spatial parameter")
    /\ markPre(FALSE)
    /\ canvas' = drawEffect(showSpatialView, spatialGrid, spatialParameter')
    /\ UNCHANGED << color, history, runVars,
                    statusVars, busyVars, targetVars, lessonVars,
                    showSpatialView, isAutoPlay, mounted, explainVars,
                    remediationVars, complianceVars, heatwaveActive >>

\* The target <select>: onChange with an option of the fetched list.
SelectTarget ==
    /\ mounted
    /\ ~(isFetchingTargets \/ isSwitchingTarget)
    /\ Room(1)
    /\ \E nextId \in targets \ {activeTargetId} :
          calls' = Add(calls, Call("selectTarget", "call", nextId, "select",
                                      showSpatialView, spatialParameter))
    /\ markAction("Switch target")
    /\ isSwitchingTarget' = TRUE
    /\ targetError' = NULL
    /\ handled("Switch target")
    /\ markPre(TRUE)
    /\ UNCHANGED << renderVars, runVars,
                    statusVars, busyVars, gridVars, targets, activeTargetId,
                    activeTarget, isFetchingTargets, engineTarget, lessonVars,
                    viewVars, timerVars, remediationVars, complianceVars,
                    heatwaveActive >>

\* A lesson button that is not disabled while a lesson is running.
RunLesson_Unguarded ==
    /\ mounted
    /\ dataError = NULL
    /\ Room(1)
    /\ \E l \in lessons :
          calls' = Add(calls, Call("runLesson", "call", l.id, "lesson",
                                      showSpatialView, spatialParameter))
    /\ markAction("Run lesson")
    /\ isRunningLesson' = TRUE
    /\ lessonError' = NULL
    /\ handled("Run lesson")
    /\ markPre(TRUE)
    /\ UNCHANGED << renderVars, runVars,
                    statusVars, busyVars, gridVars, targetVars, lessons,
                    isFetchingLessons, viewVars, timerVars, remediationVars,
                    complianceVars, heatwaveActive >>

\* A lesson button of the displayed lesson list.
RunLesson ==
    /\ mounted
    /\ ~isRunningLesson /\ dataError = NULL
    /\ Room(1)
    /\ \E l \in lessons :
          calls' = Add(calls, Call("runLesson", "call", l.id, "lesson",
                                      showSpatialView, spatialParameter))
    /\ markAction("Run lesson")
    /\ isRunningLesson' = TRUE
    /\ lessonError' = NULL
    /\ handled("Run lesson")
    /\ markPre(TRUE)
    /\ UNCHANGED << renderVars, runVars,
                    statusVars, busyVars, gridVars, targetVars, lessons,
                    isFetchingLessons, viewVars, timerVars, remediationVars,
                    complianceVars, heatwaveActive >>

\* Deploy at Center.
DeployRemediation ==
    /\ mounted
    /\ ~isDeployingRemediation /\ dataError = NULL
    /\ Room(1)
    /\ markAction("Deploy remediation")
    /\ isDeployingRemediation' = TRUE
    /\ remediationError' = NULL
    /\ calls' = Add(calls, Call("deployRemediation", "call", NULL, "deploy",
                                   FALSE, NULL))
    /\ handled("Deploy remediation")
    /\ markPre(TRUE)
    /\ UNCHANGED << renderVars, runVars,
                    statusVars, busyVars, gridVars, targetVars, lessonVars,
                    viewVars, timerVars, remediationSummary, complianceVars,
                    heatwaveActive >>

\* Check Status.
CheckCompliance ==
    /\ mounted
    /\ ~isCheckingCompliance /\ dataError = NULL
    /\ Room(1)
    /\ isCheckingCompliance' = TRUE
    /\ complianceError' = NULL
    /\ calls' = Add(calls, Call("getRegulatoryCompliance", "call", NULL,
                                   "compliance", FALSE, NULL))
    /\ handled("Check Status")
    /\ markPre(FALSE)
    /\ UNCHANGED << renderVars, runVars,
                    statusVars, busyVars, gridVars, targetVars, lessonVars,
                    viewVars, timerVars, explainVars, remediationVars,
                    regulatoryCompliance, heatwaveActive >>

\* ------------------------------------------------------- Run Compare (A/B)
\* Everything but the run slots, the last event and the recorded pre-state.
sessionVars ==
    << statusVars, busyVars, gridVars, targetVars, lessonVars, viewVars,
       timerVars, explainVars, remediationVars, complianceVars,
       renderVars, heatwaveActive, calls, nEvents >>

\* The run captureRunSnapshot(id) builds from a valid snapshot (its
\* timestamp is left out).
RunSnapshot(id, snap) ==
    [id |-> id, targetId |-> activeTargetId, targetName |-> activeTarget,
     health |-> health, chemistry |-> snap]

\* captureRunSnapshot without `if (!snap) return`.
captureRunSnapshot_Unchecked(id) ==
    LET snap == toChemistrySnapshot(chemistry)
    IN  /\ runA' = IF id = "A" THEN RunSnapshot(id, snap) ELSE runA
        /\ runB' = IF id = "A" THEN runB ELSE RunSnapshot(id, snap)

\* captureRunSnapshot storing the run in both slots.
captureRunSnapshot_Both(id) ==
    LET snap == toChemistrySnapshot(chemistry)
    IN  IF snap = None THEN UNCHANGED runVars
        ELSE /\ runA' = RunSnapshot(id, snap)
             /\ runB' = RunSnapshot(id, snap)

\* captureRunSnapshot(id)
captureRunSnapshot(id) ==
    LET snap == toChemistrySnapshot(chemistry)
    IN  IF snap = None THEN UNCHANGED runVars
        ELSE /\ runA' = IF id = "A" THEN RunSnapshot(id, snap) ELSE runA
             /\ runB' = IF id = "A" THEN runB ELSE RunSnapshot(id, snap)

\* captureRunSnapshot(id) is called.
captureCalled(id) ==
    /\ captureRunSnapshot(id)
    /\ lastEvent' = Event("capture " \o id)
    /\ markPre(FALSE)
    /\ UNCHANGED sessionVars

CaptureA == captureCalled("A")
CaptureB == captureCalled("B")

\* The Save A / Save B buttons, disabled without a valid snapshot or with
\* a status error.
SaveA ==
    /\ mounted
    /\ toChemistrySnapshot(chemistry) # None /\ dataError = NULL
    /\ captureCalled("A")

SaveB ==
    /\ mounted
    /\ toChemistrySnapshot(chemistry) # None /\ dataError = NULL
    /\ captureCalled("B")

\* The Clear button.
ClearRuns ==
    /\ mounted
    /\ runA' = None /\ runB' = None
    /\ lastEvent' = Event("Clear")
    /\ markPre(FALSE)
    /\ UNCHANGED sessionVars

\* The rows of the delta table, in the order the table lists them.
CompareKeys ==
    << "dissolved_oxygen", "temperature", "bod", "nutrient",
       "phytoplankton", "zooplankton", "detritus", "ph" >>

\* The comparison as rendered: nothing unless both slots are populated;
\* otherwise the cross-target warning and, per field, a, b and d = b - a.
Comparison ==
    IF runA = None \/ runB = None THEN None
    ELSE [warning |-> /\ runA.targetId # NULL /\ runB.targetId # NULL
                      /\ runA.targetId # runB.targetId,
          rows |-> [i \in 1..Len(CompareKeys) |->
                      LET a == runA.chemistry[CompareKeys[i]]
                          b == runB.chemistry[CompareKeys[i]]
                      IN  [k |-> CompareKeys[i], a |-> a, b |-> b,
                           d |-> minus(b, a)]]]

\* --------------------------------------------------------- fetchData
DataErrorMessage == "Could not connect to backend"
HealthErrorText == "Error: Could not connect to backend."

\* What runs once the fetchData awaited by c has resolved: the
\* finally block of the operation that awaited it and, for selectTarget and
\* runLesson, the rest of the Dashboard handler (which fetches the grid when
\* the view was on as the handler started).
afterFetchData(c, wrote) ==
    LET grid == c.op \in {"selectTarget", "runLesson"} /\ c.view
    IN  /\ isStepping' = IF c.op = "stepSimulation" THEN FALSE ELSE isStepping
        /\ isResetting' =
               IF c.op = "resetSimulation" THEN FALSE ELSE isResetting
        /\ isRunningLesson' =
               IF c.op = "runLesson" THEN FALSE ELSE isRunningLesson
        /\ isSwitchingTarget' =
               IF c.op = "selectTarget" THEN FALSE ELSE isSwitchingTarget
        /\ startSpatial(grid)
        /\ calls' = AddAll(Renumber(Drop(calls, c), c.seq, wrote),
                           spatialCalls(grid, c.param))

\* GET /status/health answers: setHealth, then GET /status/chemistry.
HealthResponse ==
    \E c \in Awaited :
        /\ c.pc = "health"
        /\ health' = "health_status"
        /\ calls' = Add(Drop(calls, c), [c EXCEPT !.pc = "chemistry"])
        /\ completed(c, TRUE, NULL)
        /\ UNCHANGED << renderVars, runVars,
                        chemistry, chemistryFresh, dataError, isFetchingData,
                        busyVars, gridVars, targetVars, lessonVars, viewVars,
                        timerVars, explainVars, remediationVars,
                        complianceVars, heatwaveActive, pre >>

\* GET /status/chemistry answers: setChemistry, the explanation effect, the
\* finally block, and the caller continues.
ChemistryResponse ==
    \E c \in Awaited :
        /\ c.pc = "chemistry"
        /\ chemistry' = Reading
        /\ chemistryFresh' = TRUE
        /\ explanation' = explanationEffect(chemistry', prevChemistry,
                                            lastActionLabel, explanation)
        /\ isFetchingData' = FALSE
        /\ afterFetchData(c, TRUE)
        /\ completed(c, TRUE, Returns(c.op, TRUE))
        /\ UNCHANGED << renderVars, runVars,
                        health, dataError, targets, activeTargetId,
                        activeTarget, isFetchingTargets, targetError,
                        engineTarget, lessons, isFetchingLessons, lessonError,
                        viewVars, timerVars, prevChemistry, lastActionLabel,
                        remediationVars, complianceVars, heatwaveActive, pre >>

\* Either request of fetchData fails: the catch and the finally block, and
\* the caller continues as after a fetchData that succeeded.
StatusFailure ==
    \E c \in Awaited :
        /\ c.pc \in {"health", "chemistry"}
        /\ health' = HealthErrorText
        /\ dataError' = DataErrorMessage
        /\ isFetchingData' = FALSE
        /\ afterFetchData(c, FALSE)
        /\ completed(c, FALSE, Returns(c.op, TRUE))
        /\ UNCHANGED << renderVars, runVars,
                        chemistry, chemistryFresh, targets, activeTargetId,
                        activeTarget, isFetchingTargets, targetError,
                        engineTarget, lessons, isFetchingLessons, lessonError,
                        viewVars, timerVars, explainVars, remediationVars,
                        complianceVars, heatwaveActive, pre >>

\* ------------------------------------------- step, reset, inject, heatwave
\* The recorded pre-state, once the request of the action it was recorded
\* for has failed.
failedPre == IF pre = None THEN None ELSE [pre EXCEPT !.failed = TRUE]

\* The POST of stepSimulation / resetSimulation / injectParameters /
\* toggleMarineHeatwave answers.  Success: the engine has changed and
\* fetchData() is awaited.  Failure: the catch logs, the finally block
\* clears the flag the operation owns.
mutationResponse(c, ok) ==
        /\ c.pc = "call"
        /\ IF ok
           THEN /\ chemistryFresh' = FALSE
                /\ gridFresh' = FALSE
                /\ isFetchingData' = TRUE
                /\ dataError' = NULL
                /\ calls' = Add(Drop(calls, c), Fetching(calls, c))
                /\ completed(c, TRUE, NULL)
                /\ UNCHANGED << busyVars, pre >>
           ELSE /\ isStepping' =
                       IF c.op = "stepSimulation" THEN FALSE ELSE isStepping
                /\ isResetting' =
                       IF c.op = "resetSimulation" THEN FALSE ELSE isResetting
                /\ calls' = Drop(calls, c)
                /\ completed(c, FALSE, Returns(c.op, FALSE))
                /\ pre' = failedPre
                /\ UNCHANGED << chemistryFresh, gridFresh, isFetchingData,
                                dataError >>
        /\ UNCHANGED << renderVars, runVars,
                        health, chemistry, spatialGrid, isFetchingSpatial,
                        spatialError, targetVars, lessonVars, viewVars,
                        timerVars, explainVars, remediationVars,
                        complianceVars, heatwaveActive >>

StepResponse ==
    \E c \in Awaited, ok \in BOOLEAN :
        c.op = "stepSimulation" /\ mutationResponse(c, ok)

ResetResponse ==
    \E c \in Awaited, ok \in BOOLEAN :
        c.op = "resetSimulation" /\ mutationResponse(c, ok)

InjectResponse ==
    \E c \in Awaited, ok \in BOOLEAN :
        c.op = "injectParameters" /\ mutationResponse(c, ok)

HeatwaveResponse ==
    \E c \in Awaited, ok \in BOOLEAN :
        c.op = "toggleMarineHeatwave" /\ mutationResponse(c, ok)

\* ------------------------------------------------------------ spatial grid
SpatialGridResponse ==
    \E c \in Awaited, ok \in BOOLEAN :
        /\ c.op = "fetchSpatialGrid"
        /\ IF ok
           THEN /\ spatialGrid' = GridOf(c.arg)
                /\ gridFresh' = TRUE
                /\ UNCHANGED spatialError
           ELSE /\ spatialError' = "Failed to fetch spatial grid."
                /\ UNCHANGED << spatialGrid, gridFresh >>
        /\ isFetchingSpatial' = FALSE
        /\ calls' = Drop(calls, c)
        /\ completed(c, ok, Returns("fetchSpatialGrid", ok))
        /\ canvas' = drawEffect(mounted /\ showSpatialView, spatialGrid',
                              spatialParameter)
        /\ UNCHANGED << color, history, runVars,
                        statusVars, busyVars, targetVars, lessonVars,
                        viewVars, timerVars, explainVars, remediationVars,
                        complianceVars, heatwaveActive, pre >>

\* ------------------------------------------------------ targets, lessons
\* useEffect(() => fetchLessons(activeTargetId), [activeTargetId]): runs
\* when a continuation has changed activeTargetId to newId.
lessonsEffect(newId, error) ==
    /\ isFetchingLessons' = (newId # activeTargetId \/ isFetchingLessons)
    /\ lessonError' = IF newId # activeTargetId THEN NULL ELSE error
    /\ UNCHANGED lessons

lessonsCalls(newId) ==
    IF newId # activeTargetId THEN << Plain("fetchLessons", newId) >>
    ELSE << >>

\* GET /targets answers.
TargetsResponse ==
    \E c \in Awaited, ok \in BOOLEAN :
        /\ c.op = "fetchTargets"
        /\ IF ok
           THEN /\ targets' = Targets
                /\ activeTargetId' = engineTarget
                /\ activeTarget' = engineTarget
                /\ UNCHANGED targetError
           ELSE /\ targetError' = "Failed to fetch target profiles."
                /\ UNCHANGED << targets, activeTargetId, activeTarget >>
        /\ isFetchingTargets' = FALSE
        /\ lessonsEffect(activeTargetId', lessonError)
        /\ isRunningLesson' = isRunningLesson
        /\ calls' = AddAll(Drop(calls, c), lessonsCalls(activeTargetId'))
        /\ completed(c, ok, Returns("fetchTargets", ok))
        /\ UNCHANGED << renderVars, runVars,
                        statusVars, busyVars, gridVars, isSwitchingTarget,
                        engineTarget, viewVars, timerVars, explainVars,
                        remediationVars, complianceVars, heatwaveActive, pre >>

\* GET /lessons answers.
LessonsResponse ==
    \E c \in Awaited, ok \in BOOLEAN :
        /\ c.op = "fetchLessons"
        /\ IF ok
           THEN lessons' = LessonsOf(c.arg) /\ UNCHANGED lessonError
           ELSE lessonError' = "Failed to load lesson presets."
                /\ UNCHANGED lessons
        /\ isFetchingLessons' = FALSE
        /\ calls' = Drop(calls, c)
        /\ completed(c, ok, Returns("fetchLessons", ok))
        /\ UNCHANGED << renderVars, runVars,
                        statusVars, busyVars, gridVars, targetVars,
                        isRunningLesson, viewVars, timerVars, explainVars,
                        remediationVars, complianceVars, heatwaveActive, pre >>

\* The target a lesson preset belongs to.
LessonTarget(id) == (CHOOSE l \in LessonCatalog : l.id = id).target_id

\* selectTarget with the active target id set before the answer is known.
selectedTargetId_Optimistic(targetId, outcome) == targetId

\* The active target id selectTarget leaves: that of the request once it
\* is answered without an error (`res.data.active_target ?? targetId`),
\* the one it found otherwise.
selectedTargetId(targetId, outcome) ==
    IF outcome = "ok" THEN targetId ELSE activeTargetId

\* POST /targets/select answers: the engine has switched (with or without
\* the profile in the response), or the response carries `error`, or the
\* request fails.
SelectResponse ==
    \E c \in Awaited, outcome \in {"ok", "error", "fail"},
       withProfile \in BOOLEAN :
        /\ c.op = "selectTarget" /\ c.pc = "call"
        /\ IF outcome = "ok"
           THEN /\ engineTarget' = c.arg
                /\ chemistryFresh' = FALSE
                /\ gridFresh' = FALSE
                /\ activeTargetId' = selectedTargetId(c.arg, outcome)
                /\ activeTarget' =
                       IF withProfile THEN c.arg ELSE activeTarget
                /\ isFetchingData' = TRUE
                /\ dataError' = NULL
                /\ lessonsEffect(c.arg, lessonError)
                /\ calls' = AddAll(Add(Drop(calls, c), Fetching(calls, c)),
                                   lessonsCalls(c.arg))
                /\ completed(c, TRUE, NULL)
                /\ UNCHANGED << targetError, isSwitchingTarget, pre >>
           ELSE /\ withProfile
                /\ targetError' = IF outcome = "error"
                                  THEN "Unknown target"
                                  ELSE "Failed to switch target."
                /\ isSwitchingTarget' = FALSE
                /\ calls' = Drop(calls, c)
                /\ completed(c, FALSE, Returns("selectTarget", FALSE))
                /\ pre' = failedPre
                /\ activeTargetId' = selectedTargetId(c.arg, outcome)
                /\ UNCHANGED << engineTarget, chemistryFresh, gridFresh,
                                activeTarget,
                                isFetchingData, dataError, lessons,
                                isFetchingLessons, lessonError >>
        /\ UNCHANGED << renderVars, runVars,
                        health, chemistry, busyVars, spatialGrid,
                        isFetchingSpatial, spatialError, targets,
                        isFetchingTargets, isRunningLesson, viewVars,
                        timerVars, explainVars, remediationVars,
                        complianceVars, heatwaveActive >>

\* POST /lessons/run answers: the engine has switched to the lesson's
\* target and applied it (the response may name the active target), or the
\* response carries `error`, or the request fails.
LessonRunResponse ==
    \E c \in Awaited, outcome \in {"ok", "error", "fail"},
       withActive \in BOOLEAN :
        /\ c.op = "runLesson" /\ c.pc = "call"
        /\ IF outcome = "ok"
           THEN /\ engineTarget' = LessonTarget(c.arg)
                /\ chemistryFresh' = FALSE
                /\ gridFresh' = FALSE
                /\ activeTargetId' = IF withActive THEN LessonTarget(c.arg)
                                     ELSE activeTargetId
                /\ isFetchingData' = TRUE
                /\ dataError' = NULL
                /\ lessonsEffect(activeTargetId', lessonError)
                /\ calls' = AddAll(Add(Drop(calls, c), Fetching(calls, c)),
                                   lessonsCalls(activeTargetId'))
                /\ completed(c, TRUE, NULL)
                /\ UNCHANGED << isRunningLesson, pre >>
           ELSE /\ withActive
                /\ lessonError' = IF outcome = "error"
                                  THEN "Unknown lesson"
                                  ELSE "Failed to run lesson."
                /\ isRunningLesson' = FALSE
                /\ calls' = Drop(calls, c)
                /\ completed(c, FALSE, Returns("runLesson", FALSE))
                /\ pre' = failedPre
                /\ UNCHANGED << engineTarget, chemistryFresh, gridFresh,
                                activeTargetId, isFetchingData, dataError,
                                lessons, isFetchingLessons >>
        /\ UNCHANGED << renderVars, runVars,
                        health, chemistry, busyVars, spatialGrid,
                        isFetchingSpatial, spatialError, targets,
                        activeTarget, isFetchingTargets, targetError,
                        isSwitchingTarget, viewVars, timerVars,
                        explainVars, remediationVars, complianceVars,
                        heatwaveActive >>

\* ------------------------------------------------ remediation, compliance
\* The answer of POST /remediation/deploy with its failure reported in the
\* connectivity banner as well.
DeployResponse_Banner ==
    \E c \in Awaited, ok \in BOOLEAN :
        LET success == Returns("deployRemediation", ok)
        IN  /\ c.op = "deployRemediation"
            /\ chemistryFresh' = (chemistryFresh /\ ~ok)
            /\ gridFresh' = (gridFresh /\ ~ok)
            /\ IF success = "true"
               THEN /\ calls' = Add(Drop(calls, c),
                                    Call("getRemediationSummary", "call",
                                         NULL, "deploy", FALSE, NULL))
                    /\ UNCHANGED << remediationVars, dataError, pre >>
               ELSE /\ remediationError' =
                           IF success = "false"
                           THEN "Failed to deploy remediation"
                           ELSE remediationError
                    /\ dataError' = "Could not connect to backend"
                    /\ isDeployingRemediation' = FALSE
                    /\ calls' = Drop(calls, c)
                    /\ pre' = failedPre
                    /\ UNCHANGED remediationSummary
            /\ completed(c, ok, success)
            /\ UNCHANGED << renderVars, runVars,
                            health, chemistry, isFetchingData,
                            busyVars, spatialGrid, isFetchingSpatial,
                            spatialError, targetVars, lessonVars, viewVars,
                            timerVars, explainVars, complianceVars,
                            heatwaveActive >>

\* POST /remediation/deploy answers; the handler goes on to the summary
\* when deployRemediation resolved to true.
DeployResponse ==
    \E c \in Awaited, ok \in BOOLEAN :
        LET success == Returns("deployRemediation", ok)
        IN  /\ c.op = "deployRemediation"
            /\ chemistryFresh' = (chemistryFresh /\ ~ok)
            /\ gridFresh' = (gridFresh /\ ~ok)
            /\ IF success = "true"
               THEN /\ calls' = Add(Drop(calls, c),
                                    Call("getRemediationSummary", "call",
                                         NULL, "deploy", FALSE, NULL))
                    /\ UNCHANGED << remediationVars, pre >>
               ELSE /\ remediationError' =
                           IF success = "false"
                           THEN "Failed to deploy remediation"
                           ELSE remediationError
                    /\ isDeployingRemediation' = FALSE
                    /\ calls' = Drop(calls, c)
                    /\ pre' = failedPre
                    /\ UNCHANGED remediationSummary
            /\ completed(c, ok, success)
            /\ UNCHANGED << renderVars, runVars,
                            health, chemistry, dataError, isFetchingData,
                            busyVars, spatialGrid, isFetchingSpatial,
                            spatialError, targetVars, lessonVars, viewVars,
                            timerVars, explainVars, complianceVars,
                            heatwaveActive >>

\* GET /remediation/summary answers the deploy handler.
SummaryResponse ==
    \E c \in Awaited, ok \in BOOLEAN :
        LET summary == Returns("getRemediationSummary", ok)
        IN  /\ c.op = "getRemediationSummary"
            /\ remediationSummary' =
                   IF summary = "data" THEN "summary" ELSE remediationSummary
            /\ remediationError' =
                   IF summary = "null"
                   THEN "Deployed, but could not refresh remediation summary."
                   ELSE remediationError
            /\ isDeployingRemediation' = FALSE
            /\ calls' = Drop(calls, c)
            /\ completed(c, ok, summary)
            /\ UNCHANGED << renderVars, runVars,
                            statusVars, busyVars, gridVars, targetVars,
                            lessonVars, viewVars, timerVars, explainVars,
                            complianceVars, heatwaveActive, pre >>

\* The answer of GET /regulatory/compliance with a failure escaping the
\* handler that awaits it: neither its else branch, its catch nor its
\* finally runs.
ComplianceResponse_Aborting ==
    \E c \in Awaited, ok \in BOOLEAN :
        LET compliance == Returns("getRegulatoryCompliance", ok)
        IN  /\ c.op = "getRegulatoryCompliance"
            /\ regulatoryCompliance' =
                   IF compliance = "data" THEN "compliance"
                   ELSE regulatoryCompliance
            /\ complianceError' = complianceError
            /\ isCheckingCompliance' =
                   IF compliance = "data" THEN FALSE
                   ELSE isCheckingCompliance
            /\ calls' = Drop(calls, c)
            /\ completed(c, ok, compliance)
            /\ UNCHANGED << renderVars, runVars,
                            statusVars, busyVars, gridVars, targetVars,
                            lessonVars, viewVars, timerVars, explainVars,
                            remediationVars, heatwaveActive, pre >>

\* GET /regulatory/compliance answers the Check Status handler or the
\* auto-play tick that awaits it.
ComplianceResponse ==
    \E c \in Awaited, ok \in BOOLEAN :
        LET compliance == Returns("getRegulatoryCompliance", ok)
        IN  /\ c.op = "getRegulatoryCompliance"
            /\ regulatoryCompliance' =
                   IF compliance = "data" THEN "compliance"
                   ELSE regulatoryCompliance
            /\ complianceError' =
                   IF compliance = "data" THEN complianceError
                   ELSE "Could not fetch compliance status."
            /\ isCheckingCompliance' = FALSE
            /\ calls' = Drop(calls, c)
            /\ completed(c, ok, compliance)
            /\ UNCHANGED << renderVars, runVars,
                            statusVars, busyVars, gridVars, targetVars,
                            lessonVars, viewVars, timerVars, explainVars,
                            remediationVars, heatwaveActive, pre >>

\* getRegulatoryHistory() has no caller in the Dashboard; a consumer of the
\* hook calls it, and GET /regulatory/summary answers.
GetRegulatoryHistory ==
    /\ mounted
    /\ Room(1)
    /\ calls' = Add(calls, Plain("getRegulatoryHistory", NULL))
    /\ handled("getRegulatoryHistory")
    /\ markPre(FALSE)
    /\ UNCHANGED << renderVars, runVars,
                    statusVars, busyVars, gridVars, targetVars, lessonVars,
                    viewVars, timerVars, explainVars, remediationVars,
                    complianceVars, heatwaveActive >>

HistoryResponse ==
    \E c \in Awaited, ok \in BOOLEAN :
        /\ c.op = "getRegulatoryHistory"
        /\ calls' = Drop(calls, c)
        /\ completed(c, ok, Returns("getRegulatoryHistory", ok))
        /\ UNCHANGED << renderVars, runVars,
                        statusVars, busyVars, gridVars, targetVars,
                        lessonVars, viewVars, timerVars, explainVars,
                        remediationVars, complianceVars, heatwaveActive, pre >>

\* ------------------------------------------------------- specifications
\* The remote service answers an awaited call.
Responses ==
    \/ HealthResponse \/ ChemistryResponse \/ StatusFailure
    \/ StepResponse \/ ResetResponse \/ InjectResponse \/ HeatwaveResponse
    \/ SpatialGridResponse \/ TargetsResponse \/ LessonsResponse
    \/ SelectResponse \/ LessonRunResponse
    \/ DeployResponse \/ SummaryResponse \/ ComplianceResponse
    \/ HistoryResponse

Next ==
    \/ Advance \/ KeySpace \/ AutoPlayTick \/ Elapse \/ ToggleAutoPlay
    \/ Unmount \/ Reset \/ Refresh \/ KeyR \/ Inject \/ ToggleHeatwave
    \/ ToggleSpatialView \/ ChangeSpatialParameter
    \/ SelectTarget \/ RunLesson \/ DeployRemediation \/ CheckCompliance
    \/ GetRegulatoryHistory
    \/ SaveA \/ SaveB \/ ClearRuns
    \/ Responses

Spec == Init /\ [][Next]_vars

\* The requests issued as the hook mounts are answered.
MountResponses ==
    \/ HealthResponse \/ ChemistryResponse \/ StatusFailure
    \/ TargetsResponse \/ LessonsResponse

\* Stepping, refreshing and injecting, from the buttons and the keyboard.
NextStepping ==
    \/ Advance \/ KeySpace \/ Refresh \/ KeyR \/ Inject
    \/ StepResponse \/ InjectResponse
    \/ MountResponses

SpecStepping == Init /\ [][NextStepping]_vars

\* Auto-play: the interval, what re-registers it, and teardown.
NextAutoPlay ==
    \/ ToggleAutoPlay \/ Elapse \/ AutoPlayTick \/ Unmount
    \/ ToggleSpatialView \/ ChangeSpatialParameter
    \/ StepResponse \/ ComplianceResponse \/ SpatialGridResponse
    \/ MountResponses

SpecAutoPlay == Init /\ [][NextAutoPlay]_vars

\* Target switching and lessons.
NextTargets ==
    \/ SelectTarget \/ RunLesson
    \/ SelectResponse \/ LessonRunResponse
    \/ MountResponses

SpecTargets == Init /\ [][NextTargets]_vars

\* A user who waits for every request to be answered before the next
\* control is used.
Quiet == calls = EmptyBag

NextSequential ==
    \/ Quiet /\ Advance
    \/ Quiet /\ KeySpace
    \/ Quiet /\ Reset
    \/ Quiet /\ Refresh
    \/ Quiet /\ KeyR
    \/ Quiet /\ Inject
    \/ Quiet /\ ToggleHeatwave
    \/ Quiet /\ ToggleSpatialView
    \/ Quiet /\ ChangeSpatialParameter
    \/ Quiet /\ SelectTarget
    \/ Quiet /\ RunLesson
    \/ Quiet /\ DeployRemediation
    \/ Quiet /\ CheckCompliance
    \/ Quiet /\ GetRegulatoryHistory
    \/ Responses

SpecSequential == Init /\ [][NextSequential]_vars

\* The same user, with every awaited request answered in the end (with
\* success or failure).
FairSequential == SpecSequential /\ WF_vars(Responses)

\* The actions with a busy flag kept by the Dashboard or set by one guarded
\* control: target switching, lessons and remediation, used without
\* waiting for the answers.
NextActions ==
    \/ SelectTarget \/ RunLesson \/ DeployRemediation
    \/ SelectResponse \/ LessonRunResponse
    \/ DeployResponse \/ SummaryResponse
    \/ MountResponses

SpecActions == Init /\ [][NextActions]_vars

\* Run Compare within a session: the Save and Clear buttons beside the
\* controls that step, reset, switch target and run a lesson.
NextRuns ==
    \/ SaveA \/ SaveB \/ ClearRuns
    \/ Quiet /\ Advance
    \/ Quiet /\ Reset
    \/ Quiet /\ SelectTarget
    \/ Quiet /\ RunLesson
    \/ StepResponse \/ ResetResponse \/ SelectResponse \/ LessonRunResponse
    \/ MountResponses

SpecRuns == Init /\ [][NextRuns]_vars

\* Run Compare alone: captureRunSnapshot and Clear applied to a settled
\* session whose chemistry, target and health are drawn from the inputs
\* below, with slot B empty or holding an earlier capture.
TypedReading(r) == [k \in DOMAIN r |-> Num(r[k])]
LakeReading == TypedReading(ChemistryOf("urban_lake"))
\* A temperature (20.50 with 11 bits) whose distance to 0.01 is not a
\* number.
WarmTemperature == 2 ^ MantissaBits + 2
ValidChemistry ==
    { LakeReading,
      TypedReading(ChemistryOf("coastal_estuary")),
      [LakeReading EXCEPT !.temperature = Num(1)],
      [LakeReading EXCEPT !.temperature = Num(WarmTemperature)] }
ChemistryInputs ==
    ValidChemistry \cup
    { None,
      [k \in KeySet \ {"ph"} |-> LakeReading[k]],
      [LakeReading EXCEPT !.bod = NotNum] }
TargetInputs == Targets \cup {NULL}
EarlierRuns ==
    { [id |-> "B", targetId |-> t, targetName |-> t,
       health |-> "health_status", chemistry |-> toChemistrySnapshot(c)] :
      t \in TargetInputs, c \in ValidChemistry }

InitCapture ==
    /\ health \in {"", "health_status"}
    /\ chemistry \in ChemistryInputs
    /\ spatialGrid = None
    /\ isFetchingData = FALSE /\ isStepping = FALSE /\ isResetting = FALSE
    /\ isFetchingSpatial = FALSE
    /\ dataError = NULL /\ spatialError = NULL
    /\ targets = Targets
    /\ activeTargetId \in TargetInputs /\ activeTarget = activeTargetId
    /\ isFetchingTargets = FALSE /\ targetError = NULL
    /\ lessons = LessonsOf(activeTargetId)
    /\ isFetchingLessons = FALSE /\ isRunningLesson = FALSE
    /\ lessonError = NULL
    /\ isAutoPlay = FALSE /\ showSpatialView = FALSE
    /\ spatialParameter = "dissolved_oxygen" /\ heatwaveActive = FALSE
    /\ remediationSummary = NULL /\ regulatoryCompliance = NULL
    /\ isCheckingCompliance = FALSE /\ complianceError = NULL
    /\ isDeployingRemediation = FALSE /\ remediationError = NULL
    /\ isSwitchingTarget = FALSE
    /\ prevChemistry = None /\ lastActionLabel = "" /\ explanation = None
    /\ runA = None /\ runB \in {None} \cup EarlierRuns
    /\ canvas = None /\ color = None
    /\ history = << >>
    /\ interval = NoInterval /\ mounted = TRUE
    /\ engineTarget = "urban_lake"
    /\ chemistryFresh = TRUE /\ gridFresh = FALSE
    /\ calls = EmptyBag
    /\ lastEvent = Event("mount")
    /\ pre = None
    /\ nEvents = 0

NextCapture == CaptureA \/ CaptureB \/ ClearRuns
SpecCapture == InitCapture /\ [][NextCapture]_vars

\* The explanation alone: the explanation effect applied to a settled
\* session after an action, with the chemistry before it that of the lake
\* and the chemistry after it drawn from the changes below (hundredths).
ChangeInputs ==
    [dissolved_oxygen : {-60, -2, -1, 0, 2}, bod : {-2, 0, 2, 200},
     temperature : {-6, -5, 0, 6}, phytoplankton : {0, 2},
     zooplankton : {0, 2}, detritus : {-2, 0, 2}, nutrient : {-2, 0, 2},
     ph : {0}]
LabelInputs == {"Advance", "Reset"}

InitExplain ==
    /\ health = "health_status"
    /\ \E ch \in ChangeInputs :
           chemistry = [k \in KeySet |->
                           Num(ChemistryOf("urban_lake")[k] + ch[k])]
    /\ spatialGrid = None
    /\ isFetchingData = FALSE /\ isStepping = FALSE /\ isResetting = FALSE
    /\ isFetchingSpatial = FALSE
    /\ dataError = NULL /\ spatialError = NULL
    /\ targets = Targets
    /\ activeTargetId = "urban_lake" /\ activeTarget = "urban_lake"
    /\ isFetchingTargets = FALSE /\ targetError = NULL
    /\ lessons = LessonsOf(activeTargetId)
    /\ isFetchingLessons = FALSE /\ isRunningLesson = FALSE
    /\ lessonError = NULL
    /\ isAutoPlay = FALSE /\ showSpatialView = FALSE
    /\ spatialParameter = "dissolved_oxygen" /\ heatwaveActive = FALSE
    /\ remediationSummary = NULL /\ regulatoryCompliance = NULL
    /\ isCheckingCompliance = FALSE /\ complianceError = NULL
    /\ isDeployingRemediation = FALSE /\ remediationError = NULL
    /\ isSwitchingTarget = FALSE
    /\ prevChemistry = ChemistryOf("urban_lake")
    /\ lastActionLabel \in LabelInputs
    /\ explanation = None
    /\ runA = None /\ runB = None
    /\ canvas = None /\ color = None
    /\ history = << >>
    /\ interval = NoInterval /\ mounted = TRUE
    /\ engineTarget = "urban_lake"
    /\ chemistryFresh = TRUE /\ gridFresh = FALSE
    /\ calls = EmptyBag
    /\ lastEvent = Event("mount")
    /\ pre = None
    /\ nEvents = 0

\* The explanation effect runs.
ExplanationEffect ==
    /\ explanation' = explanationEffect(chemistry, prevChemistry,
                                        lastActionLabel, explanation)
    /\ handled("explanation effect")
    /\ UNCHANGED << statusVars, busyVars, gridVars, targetVars, lessonVars,
                    viewVars, timerVars, prevChemistry, lastActionLabel,
                    remediationVars, complianceVars, runVars,
                    renderVars, heatwaveActive, calls, pre >>

NextExplain == ExplanationEffect \/ SaveA \/ ClearRuns
SpecExplain == InitExplain /\ [][NextExplain]_vars

\* A settled session showing the spatial view of parameter p with grid g,
\* before the effects of that render have run.
Settled(p, g) ==
    /\ engineTarget = "urban_lake"
    /\ health = "health_status" /\ chemistry = LakeReading
    /\ spatialGrid = g
    /\ isFetchingData = FALSE /\ isStepping = FALSE /\ isResetting = FALSE
    /\ isFetchingSpatial = FALSE
    /\ dataError = NULL /\ spatialError = NULL
    /\ targets = Targets
    /\ activeTargetId = "urban_lake" /\ activeTarget = "urban_lake"
    /\ isFetchingTargets = FALSE /\ targetError = NULL
    /\ lessons = LessonsOf(activeTargetId)
    /\ isFetchingLessons = FALSE /\ isRunningLesson = FALSE
    /\ lessonError = NULL
    /\ isAutoPlay = FALSE /\ showSpatialView = TRUE
    /\ spatialParameter = p /\ heatwaveActive = FALSE
    /\ remediationSummary = NULL /\ regulatoryCompliance = NULL
    /\ isCheckingCompliance = FALSE /\ complianceError = NULL
    /\ isDeployingRemediation = FALSE /\ remediationError = NULL
    /\ isSwitchingTarget = FALSE
    /\ prevChemistry = None /\ lastActionLabel = "" /\ explanation = None
    /\ runA = None /\ runB = None
    /\ canvas = None /\ color = None
    /\ interval = NoInterval /\ mounted = TRUE
    /\ chemistryFresh = TRUE /\ gridFresh = TRUE
    /\ calls = EmptyBag
    /\ lastEvent = Event("mount")
    /\ pre = None
    /\ nEvents = 0

SettledView(p, g) == Settled(p, g) /\ history = << >>

\* getColor alone: calls with the values, ranges (min, max) and palette
\* names below (the five palettes and a name that is none of them).
ColorInputs ==
    [value : {-50, 0, 10, 25, 33, 50, 67, 75, 100, 150},
     range : { << 0, 100 >>, << 50, 50 >>, << 0, 0 >> },
     colormap : {"oxygen", "nutrient", "phyto", "pollutant", "temperature",
                 "other"}]

GetColor ==
    /\ \E in \in ColorInputs :
           color' = [value |-> in.value, min |-> in.range[1],
                     max |-> in.range[2], colormap |-> in.colormap,
                     rgb |-> getColor(in.value, in.range[1], in.range[2],
                                      in.colormap)]
    /\ lastEvent' = Event("getColor")
    /\ UNCHANGED << statusVars, busyVars, gridVars, targetVars, lessonVars,
                    viewVars, timerVars, explainVars, remediationVars,
                    complianceVars, runVars, canvas, history, heatwaveActive,
                    calls,
                    pre, nEvents >>

SpecColor ==
    /\ SettledView("dissolved_oxygen", GridOf("dissolved_oxygen"))
    /\ [][GetColor]_vars

\* The draw effect alone, on fields of 2 x 2 and 3 x 1 cells any of whose
\* cells or rows may be missing, in any of the five parameters' palettes.
FieldInputs(nx, ny) ==
    UNION { [rows -> UNION { [cells -> {0, 50, 100}] :
                             cells \in SUBSET (1..nx) }] :
            rows \in SUBSET (1..ny) }
GridInputs ==
    UNION { { [grid |-> f, min |-> range[1], max |-> range[2],
               nx |-> dims[1], ny |-> dims[2]] :
              f \in FieldInputs(dims[1], dims[2]) } :
            dims \in { << 2, 2 >>, << 3, 1 >> },
            range \in { << 0, 100 >>, << 50, 50 >> } }
ParameterInputs ==
    {"dissolved_oxygen", "nutrient", "phytoplankton", "bod", "temperature"}

\* The draw effect of SpatialVisualization runs.
Draw ==
    /\ canvas' = drawEffect(mounted /\ showSpatialView, spatialGrid,
                            spatialParameter)
    /\ lastEvent' = Event("draw effect")
    /\ UNCHANGED << statusVars, busyVars, gridVars, targetVars, lessonVars,
                    viewVars, timerVars, explainVars, remediationVars,
                    complianceVars, runVars, color, history, heatwaveActive,
                    calls,
                    pre, nEvents >>

SpecRender ==
    /\ \E p \in ParameterInputs, g \in GridInputs : SettledView(p, g)
    /\ [][Draw]_vars

\* The charts alone: a settled session whose charts hold between 1 and
\* HistoryKeep + 1 entries of the lake's chemistry, taken at the times 1, 2,
\* ...; then chemistry updates, each followed by the history effect.
InitHistory ==
    /\ Settled("dissolved_oxygen", None)
    /\ \E n \in 1..(HistoryKeep + 1) :
           history = [i \in 1..n |-> historyEntry(i, LakeReading)]

\* new Date().getTime() at the next update: not before the newest entry.
Now == {history[Len(history)].time, history[Len(history)].time + 1}

\* setChemistry(...) of a new reading, and the effects that depend on the
\* chemistry.
ChemistryUpdate ==
    /\ \E chem \in ValidChemistry, now \in Now :
           /\ chemistry' = chem
           /\ history' = historyEffect(history, chemistry', now)
    /\ explanation' = explanationEffect(chemistry', prevChemistry,
                                        lastActionLabel, explanation)
    /\ handled("history effect")
    /\ UNCHANGED << health, chemistryFresh, dataError, isFetchingData,
                    busyVars, gridVars, targetVars, lessonVars, viewVars,
                    timerVars, prevChemistry, lastActionLabel,
                    remediationVars, complianceVars, runVars, canvas, color,
                    heatwaveActive, calls, pre >>

SpecHistory == InitHistory /\ [][ChemistryUpdate]_vars

\* ================================================================= claims
\* The step requests (POST /simulation/step) awaiting their answer.
StepsInFlight ==
    LET S == {c \in Awaited : c.op = "stepSimulation" /\ c.pc = "call"}
    IN  BagCardinality([c \in S |-> calls[c]])

\* C1: at most one step request is in flight at any time, whatever triggers
\* the step (the Advance button, the Space key, the auto-play tick).
C1_AtMostOneStepInFlight == StepsInFlight <= 1

\* C2: no auto-play tick fires once auto-play is off or the Dashboard is
\* torn down: whenever a tick fires, auto-play is on and the Dashboard is
\* mounted.
C2_TickOnlyWhileAutoPlay == [][AutoPlayTick => (isAutoPlay /\ mounted)]_vars

\* C2, where it applies: auto-play has just been turned off after a tick
\* had fired, and no interval is registered any more.
C2_Witness ==
    /\ ~isAutoPlay
    /\ interval = NoInterval
    /\ lastEvent.ev = "autoplay off"
    /\ lastActionLabel = "Auto-play: advance"

\* C3: the displayed lessons all belong to the active target: while a target
\* id is active, every lesson of the list has that id as its target_id (a
\* list fetched with no target id is not shown under another target).
C3_LessonsOfActiveTarget ==
    activeTargetId # NULL => \A l \in lessons : l.target_id = activeTargetId

\* A lesson request awaits its answer.
LessonsInFlight == \E c \in Awaited : c.op = "fetchLessons"

\* The last action was a target switch, it has succeeded and finished, and
\* every lesson request has been answered, none with a failure.
SwitchSettled ==
    /\ lastActionLabel = "Switch target"
    /\ ~isSwitchingTarget /\ targetError = NULL
    /\ ~(\E c \in Awaited : c.op = "selectTarget")
    /\ ~LessonsInFlight /\ ~isFetchingLessons /\ lessonError = NULL

\* C4: once a switch from target X to target Y and every lesson request
\* have completed, the lesson list holds only lessons of Y, in whatever
\* order the responses arrived.
C4_LessonsOfNewTargetAfterSwitch ==
    SwitchSettled => \A l \in lessons : l.target_id = activeTargetId

\* C5: with overlapping status fetches, the chemistry written by a
\* fetchData called later is never overwritten by the chemistry of a
\* fetchData called earlier.
C5_ChemistryInCallOrder == ~lastEvent.late

\* The continuation that ran last followed the failure of a request.
RequestFailed == lastEvent.ev = "completion" /\ ~lastEvent.ok

\* The own request of a mutating action has just failed / succeeded.
MutationFailed ==
    RequestFailed /\ lastEvent.op \in MutatingOps /\ lastEvent.pc = "call"
MutationSucceeded ==
    /\ lastEvent.ev = "completion" /\ lastEvent.ok
    /\ lastEvent.op \in MutatingOps /\ lastEvent.pc = "call"

\* C6: when a request to the remote service fails, the operation that
\* awaited it returns normally (a value, true / false, null, or nothing):
\* none of the hook's operations throws to its caller.
C6_NoOperationThrows ==
    RequestFailed =>
        /\ lastEvent.op \in Operations
        /\ lastEvent.result \in {"void", "true", "false", "data", "null"}

\* C6, where it applies: the request of deployRemediation has failed and
\* the operation has resolved to false.
C6_Witness ==
    /\ RequestFailed
    /\ lastEvent.op = "deployRemediation"
    /\ lastEvent.result = "false"
    /\ remediationError # NULL

\* The busy flag of a mutating action (the hook or the Dashboard keeps none
\* for injectParameters and toggleMarineHeatwave), and the error field its
\* failure is reported in (the status banner for the actions that have no
\* field of their own).
BusyFlag(op) ==
    CASE op = "stepSimulation" -> isStepping
      [] op = "resetSimulation" -> isResetting
      [] op = "selectTarget" -> isSwitchingTarget
      [] op = "runLesson" -> isRunningLesson
      [] op = "deployRemediation" -> isDeployingRemediation
      [] OTHER -> FALSE

ErrorField(op) ==
    CASE op = "selectTarget" -> targetError
      [] op = "runLesson" -> lessonError
      [] op = "deployRemediation" -> remediationError
      [] OTHER -> dataError

\* C7: when the request of a mutating action fails, the action's busy flag
\* is cleared and an error field is set to a message for that failure.
C7_FailureClearsFlagAndSetsError ==
    MutationFailed =>
        ~BusyFlag(lastEvent.op) /\ ErrorField(lastEvent.op) # NULL

\* C8: when the request of a mutating action fails, the health, the
\* chemistry, the spatial grid, the active target and the lessons are what
\* they were before the action was invoked.
C8_FailureLeavesStateUnchanged ==
    (pre # None /\ pre.failed) => Snapshot = pre.snap

\* C9: after every successful mutating action (deploy-remediation included)
\* a status refetch is issued, and the busy flag of the action is cleared
\* only once that refetch has completed: as the request of the action
\* succeeds, the action awaits fetchData with its flag still set.
C9_RefetchAfterSuccess ==
    MutationSucceeded =>
        /\ \E c \in Awaited : c.op = lastEvent.op /\ c.pc = "health"
        /\ lastEvent.op \in {"stepSimulation", "resetSimulation", "selectTarget",
                             "runLesson", "deployRemediation"}
               => BusyFlag(lastEvent.op)

\* C10: with the grid view active, a successful mutating action is followed
\* by a grid fetch issued after the mutation succeeded: once every request
\* has been answered, the grid displayed without an error was read after
\* the engine's last mutation.
C10_GridReflectsMutation ==
    (Quiet /\ showSpatialView /\ spatialGrid # None /\ spatialError = NULL)
        => gridFresh

\* C11: the active target id and profile are replaced together: in every
\* state the active target profile is absent or is the profile of the
\* active target id.
C11_ProfileOfActiveTarget ==
    activeTarget = NULL \/ activeTarget = activeTargetId

\* The continuation that ran last followed a target switch answered with an
\* error (a response carrying `error`, or a failed request).
SwitchFailed ==
    RequestFailed /\ lastEvent.op = "selectTarget" /\ lastEvent.pc = "call"

\* C12: when a target switch is answered with an error, selectTarget
\* returns false, targetError is set, the active target id and profile
\* keep their values, no status refetch is issued (the only change to the
\* awaited calls is that the switch is no longer one of them) and the
\* switching flag is cleared.
C12_FailedSwitchLeavesTarget ==
    [][SwitchFailed' =>
          /\ lastEvent'.result = "false"
          /\ targetError' # NULL
          /\ activeTargetId' = activeTargetId
          /\ activeTarget' = activeTarget
          /\ \E c \in Awaited :
                c.op = "selectTarget" /\ calls' = Drop(calls, c)
          /\ isFetchingData' = isFetchingData
          /\ ~isSwitchingTarget']_vars

\* C12, where it applies: a switch away from the active target has just
\* been answered with an error.
C12_Witness ==
    /\ SwitchFailed
    /\ activeTargetId # NULL
    /\ targetError # NULL
    /\ lastActionLabel = "Switch target"

\* ---- C13 ----
\* The chemistry has no valid snapshot: it is absent, or one of the 8
\* fields is missing or not a number.
NoValidSnapshot(c) ==
    \/ c = None
    \/ \E k \in KeySet : k \notin DOMAIN c \/ typeof(c[k]) # "number"

AllNumeric(snap) ==
    /\ DOMAIN snap = KeySet
    /\ \A k \in KeySet : snap[k] \in Int

CaptureCalled == lastEvent.ev \in {"capture A", "capture B"}

\* C13: a capture is a no-op when the current chemistry is absent or one of
\* its 8 fields is missing or non-numeric, and every populated run slot
\* holds a chemistry whose 8 fields are all numbers.
C13_CaptureNeedsValidChemistry ==
    [][/\ (CaptureCalled' /\ NoValidSnapshot(chemistry)) =>
              (runA' = runA /\ runB' = runB)
       /\ runA' # None => AllNumeric(runA'.chemistry)
       /\ runB' # None => AllNumeric(runB'.chemistry)]_vars

\* A capture was called on a chemistry with a field missing, and slot A is
\* still empty beside a populated slot B.
C13_Witness ==
    /\ lastEvent.ev = "capture A"
    /\ chemistry # None /\ NoValidSnapshot(chemistry)
    /\ runA = None /\ runB # None

\* ---- C14 ----
\* C14: run slots are keyed, not accumulated.  A capture into A stores a
\* run with id A in slot A and leaves slot B alone, a capture into B stores
\* a run with id B in slot B and leaves slot A alone, Clear empties both
\* slots, and no other step (advance, reset, target switch, lesson run,
\* or any response) changes either slot.
C14_SlotsKeyedNotAccumulated ==
    [][/\ lastEvent'.ev = "capture A" =>
              /\ runB' = runB
              /\ runA' = RunSnapshot("A", toChemistrySnapshot(chemistry))
              /\ runA'.id = "A"
       /\ lastEvent'.ev = "capture B" =>
              /\ runA' = runA
              /\ runB' = RunSnapshot("B", toChemistrySnapshot(chemistry))
              /\ runB'.id = "B"
       /\ lastEvent'.ev = "Clear" => (runA' = None /\ runB' = None)
       /\ lastEvent'.ev \notin {"capture A", "capture B", "Clear"} =>
              (runA' = runA /\ runB' = runB)]_vars

\* Slot A was saved under one target, the target was switched, and slot B
\* has just been saved under the other: both slots are populated.
C14_Witness ==
    /\ lastEvent.ev = "capture B"
    /\ runA # None /\ runB # None
    /\ runA.id = "A" /\ runB.id = "B"
    /\ runA.targetId # NULL /\ runB.targetId # NULL
    /\ runA.targetId # runB.targetId
    /\ lastActionLabel = "Switch target"

\* ---- C15 ----
\* C15: whenever the comparison is produced (both slots populated), every
\* field's delta added back to A's value gives B's value: a + delta = b.
C15_DeltaRestoresB ==
    Comparison # None =>
        \A i \in DOMAIN Comparison.rows :
            LET row == Comparison.rows[i]
            IN  /\ row.a = runA.chemistry[row.k]
                /\ row.b = runB.chemistry[row.k]
                /\ plus(row.a, row.d) = row.b

\* ---- C16 ----
\* C16: whenever both slots are populated, the comparison flags the
\* cross-target warning exactly when the target id stored in slot A
\* differs from the one stored in slot B, and computes the deltas either
\* way.
C16_WarningIffTargetsDiffer ==
    Comparison # None =>
        /\ Comparison.warning <=> (runA.targetId # runB.targetId)
        /\ Len(Comparison.rows) = Len(CompareKeys)

\* ---- C17 ----
\* C17: the first bullet of an explanation lists the 3 fields with the
\* largest absolute delta, in descending order of absolute delta, fields of
\* equal magnitude in the field order of the chemistry snapshot.
C17_TopThreeInSnapshotOrder ==
    explanation # None =>
        explanation.bullets[1] = TopBullet(Keys, explanation.deltas)

\* ---- C18 ----
\* The rules as the specification lists them, each with whether its
\* condition holds on the deltas d (0.01 and 0.05 in hundredths).
RuleTable(d) ==
    << [holds |-> d.dissolved_oxygen < -1 /\ d.bod > 1,
        note |-> Notes.bodUp],
       [holds |-> d.dissolved_oxygen < -1 /\ d.temperature > 5,
        note |-> Notes.warmer],
       [holds |-> /\ d.dissolved_oxygen < -1
                  /\ (d.detritus > 1 \/ d.zooplankton > 1
                      \/ d.phytoplankton > 1),
        note |-> Notes.biomass],
       [holds |-> d.dissolved_oxygen > 1 /\ d.bod < -1,
        note |-> Notes.bodDown],
       [holds |-> d.dissolved_oxygen > 1 /\ d.phytoplankton > 1,
        note |-> Notes.photosynthesis],
       [holds |-> d.dissolved_oxygen > 1 /\ d.temperature < -5,
        note |-> Notes.cooler],
       [holds |-> d.nutrient < -1 /\ d.phytoplankton > 1,
        note |-> Notes.uptake],
       [holds |-> d.nutrient > 1 /\ d.detritus < -1,
        note |-> Notes.remineralization] >>

NotesThatHold(d) ==
    LET held == SelectSeq(RuleTable(d), LAMBDA r : r.holds)
    IN  [i \in 1..Len(held) |-> held[i].note]

\* DO 6.0 -> 5.4 and BOD 2.0 -> 4.0, the other fields equal.
ExampleDeltas ==
    [k \in KeySet |-> CASE k = "dissolved_oxygen" -> -60
                        [] k = "bod" -> 200
                        [] OTHER -> 0]

\* C18: the bullets after the first are exactly the notes of the rules
\* whose conditions hold on the deltas, each rule evaluated on its own; and
\* for DO 6.0 -> 5.4, BOD 2.0 -> 4.0 the first bullet lists `bod +2.00` and
\* `dissolved oxygen -0.60` and is followed by the BOD-driven DO-drop note.
C18_RuleBulletsAreNotesThatHold ==
    explanation # None =>
        /\ Tail(explanation.bullets) = NotesThatHold(explanation.deltas)
        /\ explanation.deltas = ExampleDeltas =>
               explanation.bullets =
                   << "Top changes: bod +2.00, dissolved oxygen -0.60, "
                      \o "temperature 0.00.",
                      "DO decreased largely because BOD increased "
                      \o "(higher oxygen demand)." >>

\* The explanation of the example has been built.
C18_Witness ==
    /\ lastEvent.ev = "explanation effect"
    /\ explanation # None
    /\ explanation.deltas = ExampleDeltas
    /\ Len(explanation.bullets) = 2

\* ---- C19 ----
\* The position at which x is first pushed.
FirstIndex(g, x) ==
    CHOOSE i \in 1..Len(g) : g[i] = x /\ \A j \in 1..(i - 1) : g[j] # x

\* C19: the bullets of an explanation are non-empty, start with the
\* top-changes bullet, hold no entry twice, number at most 6 (at most 5
\* rule bullets), and come in the order in which they were generated.
C19_BulletsWellFormed ==
    explanation # None =>
        LET b == explanation.bullets
            g == Generated(explanation.deltas)
        IN  /\ Len(b) >= 1
            /\ b[1] = TopBullet(DeltaKeys, explanation.deltas)
            /\ \A i, j \in 1..Len(b) : i # j => b[i] # b[j]
            /\ Len(b) <= 6 /\ Len(b) - 1 <= 5
            /\ \A i \in 1..Len(b) : \E n \in 1..Len(g) : g[n] = b[i]
            /\ \A i, j \in 1..Len(b) :
                   i < j => FirstIndex(g, b[i]) < FirstIndex(g, b[j])

\* An explanation with the most bullets the rules can produce together:
\* the three notes of a DO drop and a nutrient note.
C19_Witness ==
    /\ lastEvent.ev = "explanation effect"
    /\ explanation # None
    /\ Len(explanation.bullets) = 5
    /\ explanation.bullets[5] = Notes.uptake

Midpoint(colormap) ==
    CASE colormap = "oxygen" -> << 220, 200, 60 >>
      [] colormap = "nutrient" -> << 30, 142, 90 >>
      [] colormap = "phyto" -> << 80, 167, 65 >>
      [] colormap = "pollutant" -> << 105, 75, 90 >>
      [] colormap = "temperature" -> << 160, 200, 100 >>
      [] OTHER -> << 161, 116, 69 >>

\* C21: for every palette name, recognized or not, and every value v,
\* getColor(v, min, min, palette) returns a colour, and it is the colour
\* the palette assigns to t = 0.5.
C21_FlatFieldIsMidpoint ==
    (color # None /\ color.max = color.min) =>
        /\ color.rgb \in Int \X Int \X Int
        /\ color.rgb = paletteAt(color.colormap, 1, 2)
        /\ color.rgb = Midpoint(color.colormap)

\* getColor was called on a flat range with a value off that range and a
\* palette name that is none of the five.
C21_Witness ==
    /\ lastEvent.ev = "getColor"
    /\ color # None /\ color.max = color.min
    /\ color.value # color.min
    /\ color.colormap = "other"

\* Two colours differ by at most one unit in each channel.
Near(a, b) == \A c \in 1..3 : a[c] - b[c] \in -1..1

\* The position of a getColor call in its range, as num / den.
AtFraction(num, den) ==
    /\ color # None /\ color.max > color.min
    /\ den * (color.value - color.min) = num * (color.max - color.min)

\* C22: colorFor is continuous at every segment boundary: a call that lands
\* on the boundary of 'oxygen' (t = 0.5) or on one of the two inner
\* breakpoints of 'temperature' (0.33, 0.67) returns the upper segment's
\* colour, and the lower segment evaluated at the same position differs from
\* it by at most one unit per channel.
C22_ContinuousAtBoundaries ==
    /\ (AtFraction(1, 2) /\ color.colormap = "oxygen") =>
           Near(color.rgb, oxygenLow(2, 2))
    /\ (AtFraction(33, 100) /\ color.colormap = "temperature") =>
           Near(color.rgb, temperatureCold(100 * 33, 33 * 100))
    /\ (AtFraction(67, 100) /\ color.colormap = "temperature") =>
           Near(color.rgb,
                temperatureMild(100 * 67 - 33 * 100, 34 * 100))

C22_Witness ==
    /\ lastEvent.ev = "getColor"
    /\ AtFraction(67, 100) /\ color.colormap = "temperature"
    /\ color.rgb = << 220, 180, 50 >>

\* The value brought into the range min..max.
Clamped(value, min, max) ==
    IF value < min THEN min ELSE IF value > max THEN max ELSE value

\* C23: for every palette and every input (value, min, max), values below
\* min or above max included, the normalized position is clamped to the
\* domain (the colour is that of the nearest end of the range) and each of
\* the three channels of the result is an integer in 0..255.
C23_ChannelsInRange ==
    (color # None /\ color.max > color.min) =>
        /\ \A c \in 1..3 : color.rgb[c] \in 0..255
        /\ color.rgb = getColor(Clamped(color.value, color.min, color.max),
                                color.min, color.max, color.colormap)

\* The field g with every missing cell, and every cell of a missing row,
\* set to g.min.
Filled(g) ==
    [g EXCEPT !.grid = [j \in 1..g.ny |->
                           [i \in 1..g.nx |->
                               cellOr(g.grid, j - 1, i - 1, g.min)]]]

\* C24: rendering a field of nx by ny cells paints exactly ny * nx pixels,
\* one per (i, j) with 0 <= i < nx and 0 <= j < ny, each the colour of
\* grid[j][i] ?? min in the parameter's palette; a field with missing cells
\* or rows renders as the field where those cells equal min, and the draw
\* leaves the stored field, its min and max included, as it was.
C24_DrawPaintsEveryCell ==
    [][lastEvent'.ev = "draw effect" =>
          \E g \in {spatialGrid}, cm \in {colormapOf(spatialParameter)} :
              /\ spatialGrid' = g
              /\ canvas' # None
              /\ canvas'.width = g.nx /\ canvas'.height = g.ny
              /\ DOMAIN canvas'.pixels = (0..(g.nx - 1)) \X (0..(g.ny - 1))
              /\ Cardinality(DOMAIN canvas'.pixels) = g.ny * g.nx
              /\ \A i \in 0..(g.nx - 1), j \in 0..(g.ny - 1) :
                     canvas'.pixels[<< i, j >>] =
                         getColor(cellOr(g.grid, j, i, g.min), g.min, g.max,
                                  cm)
              /\ canvas' = Painted(Filled(g), cm)]_vars

C24_Witness ==
    /\ lastEvent.ev = "draw effect"
    /\ canvas # None
    /\ spatialGrid.nx = 2 /\ spatialGrid.ny = 2
    /\ DOMAIN spatialGrid.grid = {1}
    /\ DOMAIN spatialGrid.grid[1] = {2}
    /\ spatialGrid.grid[1][2] = 100 /\ spatialGrid.max > spatialGrid.min
    /\ Cardinality(DOMAIN canvas.pixels) = 4

\* The step requests of the bag B.
StepsIn(B) == CopiesIn(Plain("stepSimulation", NULL), B)

\* The compliance request of an auto-play tick has just failed.
ComplianceFailed ==
    /\ BagCardinality(calls') < BagCardinality(calls)
    /\ lastEvent'.ev = "completion"
    /\ lastEvent'.op = "getRegulatoryCompliance"
    /\ ~lastEvent'.ok

\* C25: a failure of the compliance refresh inside an auto-play tick does
\* not abort the tick or the timer: every tick issues its step before the
\* refresh; when the refresh fails, complianceError is set, the compliance
\* busy flag is cleared, the compliance data shown before is kept, the step
\* requests in flight stay in flight, and the timer is left as it was, so
\* that while auto-play stays on the interval is still registered and its
\* next tick steps.
C25_ComplianceFailureKeepsTicking ==
    [][/\ AutoPlayTick => StepsIn(calls') = StepsIn(calls) + 1
       /\ ComplianceFailed =>
              /\ complianceError' = "Could not fetch compliance status."
              /\ isCheckingCompliance' = FALSE
              /\ regulatoryCompliance' = regulatoryCompliance
              /\ StepsIn(calls') = StepsIn(calls)
              /\ timerVars' = timerVars
              /\ (isAutoPlay' /\ mounted') => interval' \in 0..TickPeriod]_vars

\* The refresh of a tick has failed after an earlier one had succeeded, the
\* next tick is due and it can fire.
C25_Witness ==
    /\ lastEvent.ev = "completion"
    /\ lastEvent.op = "getRegulatoryCompliance" /\ ~lastEvent.ok
    /\ complianceError = "Could not fetch compliance status."
    /\ ~isCheckingCompliance
    /\ regulatoryCompliance = "compliance"
    /\ isAutoPlay /\ mounted /\ interval = TickPeriod
    /\ ENABLED AutoPlayTick

\* C26: the busy flags of different action classes are independent: a
\* manual reset can be issued whenever no reset is in flight, also while
\* auto-play is running and one of its steps is in flight, and a spatial-grid
\* fetch (here by showing the spatial view) can be issued while a step is in
\* flight.  Room and nEvents are the bounds of the model, not conditions of
\* the program.
C26_BusyFlagsIndependent ==
    /\ ( /\ mounted /\ ~isResetting
         /\ nEvents < MaxEvents
         /\ Room(IF showSpatialView THEN 2 ELSE 1) ) => ENABLED Reset
    /\ ( /\ mounted /\ isStepping /\ ~isFetchingSpatial /\ ~showSpatialView
         /\ nEvents < MaxEvents
         /\ Room(2) ) => ENABLED ToggleSpatialView

\* The error fields of the session.
Errors ==
    [data |-> dataError, spatial |-> spatialError, target |-> targetError,
     lesson |-> lessonError, remediation |-> remediationError,
     compliance |-> complianceError]

\* The error field of an action with a field of its own.
ScopedField(op) ==
    CASE op = "selectTarget" -> "target"
      [] op = "runLesson" -> "lesson"
      [] op = "deployRemediation" -> "remediation"
      [] op = "getRegulatoryCompliance" -> "compliance"

\* The request of one of these actions has just failed.
ScopedRequestFailed ==
    /\ BagCardinality(calls') < BagCardinality(calls)
    /\ lastEvent'.ev = "completion"
    /\ lastEvent'.op \in {"selectTarget", "runLesson", "deployRemediation",
                          "getRegulatoryCompliance"}
    /\ lastEvent'.pc = "call"
    /\ ~lastEvent'.ok

\* C27: action-specific errors are scoped to their own field: a failure of
\* the target switch, lesson run, remediation deploy or compliance check
\* request sets targetError, lessonError, remediationError or
\* complianceError respectively, and leaves dataError and every other error
\* field as it was.
C27_ErrorsScopedToOwnField ==
    [][ScopedRequestFailed =>
           \E own \in {ScopedField(lastEvent'.op)} :
               /\ Errors'[own] # NULL
               /\ \A f \in DOMAIN Errors \ {own} : Errors'[f] = Errors[f]]_vars

\* A failed deploy while a target error is shown: both errors are shown,
\* each in its field, and the connectivity error is not.
C27_Witness ==
    /\ lastEvent.ev = "completion" /\ lastEvent.op = "deployRemediation"
    /\ ~lastEvent.ok
    /\ remediationError # NULL /\ targetError # NULL
    /\ dataError = NULL /\ lessonError = NULL /\ complianceError = NULL

\* A handler that marks its action has just run.
Marked ==
    /\ BagCardinality(calls') > BagCardinality(calls)
    /\ lastEvent'.ev # "completion"
    /\ lastEvent'.ev = lastActionLabel'

\* A chemistry snapshot has just landed.
ChemistryLanded ==
    /\ lastEvent'.ev = "completion" /\ lastEvent'.pc = "chemistry"
    /\ lastEvent'.ok
    /\ BagCardinality(calls') < BagCardinality(calls)

\* C28: after an action is marked, no explanation is shown until a new
\* chemistry snapshot lands: the marking leaves no explanation, nothing but
\* a marking or a chemistry update changes the explanation, and the first
\* chemistry update after the marking recomputes it from the marked baseline
\* and the new chemistry.
C28_NoExplanationUntilChemistry ==
    [][/\ Marked => explanation' = None
       /\ (~Marked /\ ~ChemistryLanded) => explanation' = explanation
       /\ (ChemistryLanded /\ prevChemistry # None /\ lastActionLabel # "") =>
              explanation' = buildExplanation(prevChemistry,
                                              toChemistrySnapshot(chemistry'),
                                              lastActionLabel)]_vars

\* C29: the connectivity error is persistent and reflects the outcome of the
\* latest status fetch: once set by a failed status fetch, dataError stays
\* non-null through every step but a status fetch succeeding, and after a
\* status fetch has succeeded it is null.
C29_DataErrorPersistent ==
    [][/\ (dataError # NULL /\ ~ChemistryLanded) => dataError' # NULL
       /\ ChemistryLanded => dataError' = NULL]_vars

\* The operation of the hook that the action marked with `label` calls.
OperationOf(label) ==
    CASE label \in {"Advance", "Advance (keyboard)", "Auto-play: advance"} ->
             "stepSimulation"
      [] label \in {"Inject nutrients", "Inject pollutants"} ->
             "injectParameters"
      [] label \in {"Refresh", "Refresh (keyboard)"} -> "fetchData"
      [] label = "Reset" -> "resetSimulation"
      [] OTHER -> NULL

\* C30: whenever a chemistry update displays an explanation, its subtitle is
\* the label of the action that triggered it and its deltas are the
\* chemistry returned by the refetch of that same action minus the chemistry
\* captured when that action was marked: the chemistry that landed was
\* fetched by the operation of the labelled action, also when actions
\* overlap, so that the change caused by one action is never displayed under
\* the label of another.
C30_ExplanationOfItsAction ==
    [][(ChemistryLanded /\ explanation' # None) =>
           /\ explanation'.subtitle = lastActionLabel
           /\ explanation'.deltas =
                  Deltas(prevChemistry, toChemistrySnapshot(chemistry'))
           /\ lastEvent'.op = OperationOf(explanation'.subtitle)]_vars

\* A request of the operation `op`, or the refetch that operation awaits,
\* is in flight.
InFlight(op) == \E c \in Awaited : c.op = op

\* A status fetch is in flight: the health or the chemistry request of some
\* fetchData, whoever called it.
StatusInFlight == \E c \in Awaited : c.pc \in {"health", "chemistry"}

\* C31: each busy flag tells the truth about its class: while a step, reset,
\* status fetch, spatial-grid fetch or compliance check request (or the
\* refetch that follows it) is in flight, isStepping, isResetting,
\* isFetchingData, isFetchingSpatial or isCheckingCompliance is true, also
\* when several calls of a class overlap and one of them completes first.
C31_BusyFlagsTruthful ==
    /\ InFlight("stepSimulation") => isStepping
    /\ InFlight("resetSimulation") => isResetting
    /\ StatusInFlight => isFetchingData
    /\ InFlight("fetchSpatialGrid") => isFetchingSpatial
    /\ InFlight("getRegulatoryCompliance") => isCheckingCompliance

\* The busy flags that are set, each with the operations whose requests it
\* stands for.
BusyFlags ==
    [isStepping |-> isStepping, isResetting |-> isResetting,
     isFetchingData |-> isFetchingData,
     isFetchingSpatial |-> isFetchingSpatial,
     isFetchingTargets |-> isFetchingTargets,
     isFetchingLessons |-> isFetchingLessons,
     isRunningLesson |-> isRunningLesson,
     isSwitchingTarget |-> isSwitchingTarget,
     isDeployingRemediation |-> isDeployingRemediation,
     isCheckingCompliance |-> isCheckingCompliance]
AnyBusy == \E f \in DOMAIN BusyFlags : BusyFlags[f]
Awaiting(f) ==
    CASE f = "isStepping" -> InFlight("stepSimulation")
      [] f = "isResetting" -> InFlight("resetSimulation")
      [] f = "isFetchingData" -> StatusInFlight
      [] f = "isFetchingSpatial" -> InFlight("fetchSpatialGrid")
      [] f = "isFetchingTargets" -> InFlight("fetchTargets")
      [] f = "isFetchingLessons" -> InFlight("fetchLessons")
      [] f = "isRunningLesson" -> InFlight("runLesson")
      [] f = "isSwitchingTarget" -> InFlight("selectTarget")
      [] f = "isDeployingRemediation" ->
             InFlight("deployRemediation") \/ InFlight("getRemediationSummary")
      [] f = "isCheckingCompliance" -> InFlight("getRegulatoryCompliance")

\* C32: if every issued request completes in the end, then, no new action
\* being invoked meanwhile, every busy flag is false in the end; and a flag
\* that is set is the flag of an operation still awaiting a request, so that
\* a request that never completes leaves only those flags set.
C32_FlagsClearWhenAnswered ==
    /\ [](\A f \in DOMAIN BusyFlags : BusyFlags[f] => Awaiting(f))
    /\ AnyBusy ~> (calls = EmptyBag /\ ~AnyBusy)

\* Two actions have been invoked and answered, and nothing is busy.
C32_Witness ==
    /\ nEvents = MaxEvents
    /\ lastEvent.ev = "completion"
    /\ calls = EmptyBag /\ ~AnyBusy

\* The requests of operation `op` in flight, counted with multiplicity.
CountInFlight(op) ==
    BagCardinality([c \in {d \in Awaited : d.op = op} |-> calls[c]])

\* C33: at most one compliance-check request is in flight at any time,
\* counting the manual Check Status action and the compliance refresh of
\* every auto-play tick.
C33_OneComplianceCheckInFlight ==
    CountInFlight("getRegulatoryCompliance") <= 1

\* C34: for each of the action classes switch-target, run-lesson and
\* deploy-remediation at most one request of the class is in flight at any
\* time (the summary request of a deploy counts with it): while
\* isSwitchingTarget, isRunningLesson or isDeployingRemediation is set, the
\* action cannot be invoked again.
C34_OneRequestPerGuardedClass ==
    /\ CountInFlight("selectTarget") <= 1
    /\ CountInFlight("runLesson") <= 1
    /\ CountInFlight("deployRemediation")
           + CountInFlight("getRemediationSummary") <= 1
    /\ isSwitchingTarget => ~ENABLED SelectTarget
    /\ isRunningLesson => ~ENABLED RunLesson
    /\ isDeployingRemediation => ~ENABLED DeployRemediation

\* A lesson is in flight and its flag is set; the lesson buttons are shown,
\* the model has room for another request and another action, and only the
\* flag keeps the lesson from being run again.
C34_Witness ==
    /\ mounted /\ InFlight("runLesson") /\ isRunningLesson
    /\ nEvents < MaxEvents /\ Room(1)
    /\ lessons # {} /\ dataError = NULL
    /\ ~ENABLED RunLesson

\* C35: once all spatial-grid requests have completed (none of the last
\* ones failing), the displayed grid is the response to a request for the
\* currently selected spatial parameter, whatever the order in which the
\* responses arrived: the grid of a previous parameter does not end up
\* displayed under the new parameter.
C35_GridOfSelectedParameter ==
    ( /\ mounted /\ showSpatialView
      /\ ~InFlight("fetchSpatialGrid")
      /\ spatialError = NULL /\ spatialGrid # None ) =>
        spatialGrid.parameter = spatialParameter

\* The heatwave state displayed before the toggle that issued call c: the
\* toggle to activate started from an inactive heatwave.
HeatwaveBefore(c) == c.arg = "Deactivate heatwave"

\* C36: when the toggle-heatwave request fails, the displayed heatwave state
\* (heatwaveActive) is the one it was before the toggle was invoked.
C36_FailedToggleKeepsHeatwave ==
    [][\A c \in Awaited :
           ( /\ c.op = "toggleMarineHeatwave" /\ calls' = Drop(calls, c)
             /\ lastEvent'.ev = "completion"
             /\ lastEvent'.op = "toggleMarineHeatwave"
             /\ ~lastEvent'.ok ) =>
               heatwaveActive' = HeatwaveBefore(c)]_vars

\* The run snapshot r was taken of chemistry fetched while the engine's
\* active target was the target it records.
ConsistentRun(r) ==
    (r # None /\ r.targetId # NULL) => r.chemistry = ChemistryOf(r.targetId)

\* C37: every stored run snapshot is internally consistent: its chemistry
\* was fetched while the remote engine's active target was the snapshot's
\* recorded targetId, also when the capture happens while a target switch
\* or a lesson run is in flight.
C37_RunSnapshotConsistent == ConsistentRun(runA) /\ ConsistentRun(runB)

\* The spatial view was toggled or the spatial parameter changed.
SpatialControlUsed ==
    /\ nEvents' = nEvents + 1
    /\ lastEvent'.ev \in {"toggle spatial view", "change spatial parameter"}

\* C38: auto-play is driven by a single repeating timer with a fixed
\* period: while auto-play stays on, toggling the spatial view or changing
\* the spatial parameter leaves the time elapsed towards the next tick as it
\* was, so that it neither postpones the next tick nor, repeated, keeps the
\* ticks from firing.
C38_ViewChangesKeepTimer ==
    [][(isAutoPlay /\ isAutoPlay' /\ mounted' /\ SpatialControlUsed) =>
           interval' = interval]_vars

\* C39: the chart history holds at most HistoryKeep + 1 = 21 entries; every
\* chemistry update appends exactly one entry, built from the new chemistry,
\* after the entries kept; and the entries kept are the newest of the old
\* ones in their order, so that only the oldest are dropped, and only those
\* beyond the newest HistoryKeep.
C39_HistoryBounded ==
    /\ [](Len(history) <= 21)
    /\ [][chemistry' # None =>
            LET kept == Len(history') - 1
                dropped == Len(history) - kept
            IN  /\ Len(history') >= 1
                /\ history'[Len(history')].do = chemistry'.dissolved_oxygen
                /\ history'[Len(history')].nutrients = chemistry'.nutrient
                /\ history'[Len(history')].phyto = chemistry'.phytoplankton
                /\ dropped >= 0
                /\ dropped = 0 \/ kept = HistoryKeep
                /\ \A i \in 1..kept : history'[i] = history[i + dropped]]_vars
\* Two updates have each dropped the oldest entry of a full history.
C39_Witness ==
    /\ lastEvent.ev = "history effect"
    /\ Len(history) = HistoryKeep + 1
    /\ history[1].time = 3
    /\ history[Len(history)].do = chemistry.dissolved_oxygen
====
